---------------------------- MODULE Spec2Model ----------------------------
(***************************************************************************)
(* Sanchar-Optimize backend core: the Network Sentry (telemetry buffer,    *)
(* prediction cache, signal-drop predictor) and the Modality Orchestrator  *)
(* (decide / panic / status / clear), modelled from                        *)
(*   Backend/app/services/network_sentry.py                                *)
(*   Backend/app/ml/lstm_predictor.py                                      *)
(*   Backend/app/services/modality_orchestrator.py                         *)
(*   Backend/app/aws/bedrock_client.py                                     *)
(*                                                                         *)
(* Units.  Floats of the source are kept as scaled integers:               *)
(*   signal strength, confidences, visual dependency : hundredths          *)
(*   buffer level                                    : tenths of a second  *)
(*   predicted time to drop                          : milliseconds        *)
(*   clock (datetime.now().timestamp())              : whole seconds       *)
(* Every threshold of the source is a multiple of the unit, so each        *)
(* comparison of the source is decided exactly (floor keeps x < k for an   *)
(* integer k).  The least-squares slope of np.polyfit is kept as an exact  *)
(* fraction, numerator over denominator; the rounding of the               *)
(* floating-point fit is not modelled.                                     *)
(***************************************************************************)
EXTENDS Integers, Sequences, FiniteSets, TLC

VARIABLES
    telemetry_buffer,   \* NetworkSentryAgent.telemetry_buffer: key -> list of points
    prediction_cache,   \* NetworkSentryAgent.prediction_cache: key -> prediction
    model,              \* LSTMPredictor.model: "none" or "loaded"
    now,                \* the wall clock read by datetime.now()
    ingested,           \* history: key -> points accepted since the key's last clear
    sentry_ret,         \* the last call of the sentry or predictor and what it returned
    session_states,     \* ModalityOrchestrator.session_states: session_id -> status
    client,             \* BedrockClient.client: "none" (mock) or "boto3"
    pc,                 \* where the decide handler is: idle, calling, replied
    pending,            \* the decide request suspended at the oracle call
    oracle_reply,       \* what client.invoke_model produced for the pending call
    orch_ret,           \* the last orchestrator call and what it returned
    decided,            \* history: session_id -> the transitions decided for the
                        \* session since its state was created
    cleared             \* history: the session_ids whose state a clear has removed

sentry_vars == <<telemetry_buffer, prediction_cache, model, ingested, sentry_ret>>
orch_vars == <<session_states, client, pc, pending, oracle_reply, orch_ret,
               decided, cleared>>
vars == <<telemetry_buffer, prediction_cache, model, now, ingested, sentry_ret,
          session_states, client, pc, pending, oracle_reply, orch_ret,
          decided, cleared>>

-----------------------------------------------------------------------------
(* Bounds of the model *)

\* Points one session may ingest in the capacity runs (above max_buffer_size).
MaxIngest == 102
\* Largest batch offered in the capacity runs.
MaxBatch == 10
\* Points every other session may ingest in the capacity runs.
MaxOther == 3
\* The clock stops advancing here.
MaxTime == 3
\* Points a buffer may hold in the prediction runs.
MaxWindow == 11
\* transition_count is capped here.
MaxTransitions == 2
\* Points a session may ingest in the retrieval runs.
MaxRecent == 4
\* Largest count asked for in the retrieval runs.
MaxCount == 5
MaxBatchLen == 3
MaxConcurrentTransitions == 2
MaxPanicTransitions == 1
MaxStateTransitions == 2
MaxKeyPoints == 2
MaxIsolationTransitions == 1
MaxHistoryTransitions == 11
MaxFrequencyPoints == 6
MaxBatchStored == 3

-----------------------------------------------------------------------------
(* Program constants *)

max_buffer_size == 100
cache_ttl_seconds == 2
sequence_length == 10
MIN_POINTS_FOR_PREDICTION == 5
VIDEO_MIN_BANDWIDTH == 1000
AUDIO_MIN_BANDWIDTH == 500
HISTORY_LIMIT == 10
prediction_horizon == 5
PREDICTION_THRESHOLD == 75
HIGH_SPEED_THRESHOLD_KMH == 60
MONITORING_FREQUENCY_HZ == 1
HIGH_SPEED_MONITORING_FREQUENCY_HZ == 4
\* get_recent_telemetry(..., count=5), also the length the variance test needs
FREQUENCY_WINDOW == 5
\* variance > 0.1, in squared hundredths
HIGH_VARIANCE == 1000

\* Python's None
None == [is_none |-> TRUE]

Min(a, b) == IF a < b THEN a ELSE b
Max(a, b) == IF a > b THEN a ELSE b
Abs(a) == IF a < 0 THEN -a ELSE a

-----------------------------------------------------------------------------
(* Python containers *)

\* d[k] = v on a dict
DictSet(d, k, v) == [x \in (DOMAIN d) \cup {k} |-> IF x = k THEN v ELSE d[x]]
\* del d[k]
DictDel(d, k) == [x \in (DOMAIN d) \ {k} |-> d[x]]
\* d.get(k, default)
DictGet(d, k, default) == IF k \in DOMAIN d THEN d[k] ELSE default
EmptyDict == [x \in {} |-> None]

\* The last n elements of a sequence.
Suffix(seq, n) == [i \in 1..n |-> seq[Len(seq) - n + i]]

\* lst[-n:] for n >= 0.  Python reads -0 as 0, so lst[-0:] is the whole list.
LastSlice(lst, n) ==
    IF n = 0 \/ n >= Len(lst) THEN lst
    ELSE SubSeq(lst, Len(lst) - n + 1, Len(lst))

-----------------------------------------------------------------------------
(* Session identifiers and telemetry points *)

Devices == {"d1", "d2"}
Sessions == {"s1", "s2"}

\* f"{device_id}:{session_id}"
Key(device_id, session_id) == device_id \o ":" \o session_id

\* A NetworkTelemetry object (the fields the core reads).
Point(d, s, ts, sig, lat, bw, vel) ==
    [device_id |-> d, session_id |-> s, timestamp |-> ts,
     signal_strength |-> sig, latency_ms |-> lat,
     bandwidth_kbps |-> bw, gps_velocity_kmh |-> vel]

-----------------------------------------------------------------------------
(* NetworkSentryAgent: telemetry buffer *)

\* ingest_telemetry takes any object. Building the key reads device_id and
\* session_id: an object without them raises before anything is stored.
RaisesBeforeAppend(telemetry) ==
    ~({"device_id", "session_id"} \subseteq DOMAIN telemetry)

\* The debug line formats signal_strength and bandwidth_kbps after the point
\* was appended and the buffer trimmed: an object without them raises there.
RaisesAfterAppend(telemetry) ==
    /\ ~RaisesBeforeAppend(telemetry)
    /\ ~({"signal_strength", "bandwidth_kbps"} \subseteq DOMAIN telemetry)

\* The value ingest_telemetry returns: False when the try block raised.
IngestResult(telemetry) ==
    ~RaisesBeforeAppend(telemetry) /\ ~RaisesAfterAppend(telemetry)

\* A slip in the trimming slice: the first max_buffer_size points are kept.
BufferAfterIngest_KeepOldest(buf, telemetry) ==
    IF RaisesBeforeAppend(telemetry) THEN buf
    ELSE
    LET key == Key(telemetry.device_id, telemetry.session_id)
        appended == Append(DictGet(buf, key, <<>>), telemetry)
    IN  DictSet(buf, key,
                IF Len(appended) > max_buffer_size
                THEN SubSeq(appended, 1, max_buffer_size)
                ELSE appended)

\* The buffer after ingest_telemetry(telemetry): append, then keep the last
\* max_buffer_size points.
BufferAfterIngest(buf, telemetry) ==
    IF RaisesBeforeAppend(telemetry) THEN buf
    ELSE
    LET key == Key(telemetry.device_id, telemetry.session_id)
        appended == Append(DictGet(buf, key, <<>>), telemetry)
    IN  DictSet(buf, key,
                IF Len(appended) > max_buffer_size
                THEN LastSlice(appended, max_buffer_size)
                ELSE appended)

\* The history records the points that were appended.
LogAfterIngest(log, telemetry) ==
    IF RaisesBeforeAppend(telemetry) THEN log
    ELSE
    LET key == Key(telemetry.device_id, telemetry.session_id)
    IN  DictSet(log, key, Append(DictGet(log, key, <<>>), telemetry))

\* The key a call is reported under ("" when the object has none).
KeyOf(telemetry) ==
    IF RaisesBeforeAppend(telemetry) THEN ""
    ELSE Key(telemetry.device_id, telemetry.session_id)

RECURSIVE BufferAfterBatch(_, _)
BufferAfterBatch(buf, batch) ==
    IF batch = <<>> THEN buf
    ELSE BufferAfterBatch(BufferAfterIngest(buf, Head(batch)), Tail(batch))

RECURSIVE LogAfterBatch(_, _)
LogAfterBatch(log, batch) ==
    IF batch = <<>> THEN log
    ELSE LogAfterBatch(LogAfterIngest(log, Head(batch)), Tail(batch))

\* A slip in the loop of ingest_telemetry_batch: every point is counted.
BatchSuccessCount_CountsAll(batch) ==
    Len(batch)

\* success_count of ingest_telemetry_batch: one per point whose
\* ingest_telemetry returned True.
BatchSuccessCount(batch) ==
    Cardinality({i \in 1..Len(batch) : IngestResult(batch[i])})

ingest_telemetry(telemetry) ==
    /\ telemetry_buffer' = BufferAfterIngest(telemetry_buffer, telemetry)
    /\ ingested' = LogAfterIngest(ingested, telemetry)
    /\ sentry_ret' = [op |-> "ingest", key |-> KeyOf(telemetry),
                      telemetry |-> telemetry,
                      result |-> IngestResult(telemetry)]
    /\ UNCHANGED <<prediction_cache, model, now, orch_vars>>

ingest_telemetry_batch(batch) ==
    /\ telemetry_buffer' = BufferAfterBatch(telemetry_buffer, batch)
    /\ ingested' = LogAfterBatch(ingested, batch)
    /\ sentry_ret' = [op |-> "ingest_batch",
                      key |-> KeyOf(batch[1]),
                      batch |-> batch,
                      result |-> BatchSuccessCount(batch)]
    /\ UNCHANGED <<prediction_cache, model, now, orch_vars>>

get_recent_telemetry(device_id, session_id, count) ==
    LastSlice(DictGet(telemetry_buffer, Key(device_id, session_id), <<>>), count)

\* A call of get_recent_telemetry: .get(key, []) creates no buffer entry.
get_recent_telemetry_call(device_id, session_id, count) ==
    /\ sentry_ret' = [op |-> "recent", key |-> Key(device_id, session_id),
                      count |-> count,
                      result |-> get_recent_telemetry(device_id, session_id, count)]
    /\ UNCHANGED <<telemetry_buffer, prediction_cache, model, ingested, now, orch_vars>>

clear_session_data(device_id, session_id) ==
    LET key == Key(device_id, session_id)
    IN  /\ telemetry_buffer' = DictDel(telemetry_buffer, key)
        /\ prediction_cache' = DictDel(prediction_cache, key)
        /\ ingested' = DictDel(ingested, key)
        /\ sentry_ret' = [op |-> "clear", key |-> key, device_id |-> device_id,
                          session_id |-> session_id, result |-> None]
        /\ UNCHANGED <<model, now, orch_vars>>

-----------------------------------------------------------------------------
(* LSTMPredictor *)

RECURSIVE Sum(_)
Sum(ys) == IF ys = <<>> THEN 0 ELSE Head(ys) + Sum(Tail(ys))

\* sum of i * ys[i] over the 0-based positions i of the list
RECURSIVE WeightedSum(_)
WeightedSum(ys) ==
    IF ys = <<>> THEN 0
    ELSE (Len(ys) - 1) * ys[Len(ys)] + WeightedSum(SubSeq(ys, 1, Len(ys) - 1))

\* np.polyfit(range(n), ys, 1)[0] is the least-squares slope
\* PolyfitNumerator(ys) / PolyfitDenominator(n); both are integers.
\* A slip in the fit: the samples are read newest first.
PolyfitNumerator_Reversed(ys) ==
    ((Len(ys) * (Len(ys) - 1)) \div 2) * Sum(ys) - Len(ys) * WeightedSum(ys)

PolyfitNumerator(ys) ==
    Len(ys) * WeightedSum(ys) - ((Len(ys) * (Len(ys) - 1)) \div 2) * Sum(ys)

PolyfitDenominator(n) ==
    (n * n * (n * n - 1)) \div 12

Signals(points) == [i \in 1..Len(points) |-> points[i].signal_strength]
Bandwidthsof(points) == [i \in 1..Len(points) |-> points[i].bandwidth_kbps]
Latencies(points) == [i \in 1..Len(points) |-> points[i].latency_ms]

\* A slip in the clamp: the lower limit of half a second is left out.
ClampedTimeToDrop_NoFloor(points, limit_ms) ==
    LET num == PolyfitNumerator(Signals(points))
        den == PolyfitDenominator(Len(points))
        cur == points[Len(points)].signal_strength
    IN  Min(limit_ms, (Abs(20 - cur) * den * 1000) \div Abs(num))

\* max(0.5, min(limit, abs((0.2 - current_signal) / signal_trend))), in ms
ClampedTimeToDrop(points, limit_ms) ==
    LET num == PolyfitNumerator(Signals(points))
        den == PolyfitDenominator(Len(points))
        cur == points[Len(points)].signal_strength
    IN  Max(500, Min(limit_ms, (Abs(20 - cur) * den * 1000) \div Abs(num)))

\* A SignalDropPrediction object.
Prediction(d, s, t, confidence, time_ms, bandwidth, version, type) ==
    [device_id |-> d, session_id |-> s, timestamp |-> t,
     confidence |-> confidence, predicted_time_ms |-> time_ms,
     predicted_bandwidth_kbps |-> bandwidth,
     prediction_horizon_seconds |-> prediction_horizon,
     model_version |-> version, predictor_type |-> type]

\* _estimate_time_to_drop(features)
EstimateTimeToDrop(points) ==
    IF /\ Len(points) >= 2
       /\ PolyfitNumerator(Signals(points)) < 0
       /\ points[Len(points)].signal_strength > 20
    THEN ClampedTimeToDrop(points, prediction_horizon * 1000)
    ELSE 3000

\* What self.model.predict does with the features: it raises, or it yields
\* a drop probability (hundredths).
ModelRaises == [raised |-> TRUE]
ModelYields(p) == [raised |-> FALSE, probability |-> p]

\* _predict_with_model(features, device_id, session_id), the clock reading t
PredictWithModel(points, d, s, outcome, t) ==
    IF outcome.raised THEN None
    ELSE IF outcome.probability >= PREDICTION_THRESHOLD
    THEN Prediction(d, s, t, outcome.probability, EstimateTimeToDrop(points),
                    Max(0, points[Len(points)].bandwidth_kbps), "lstm_v1", "lstm")
    ELSE None

\* A slip in the severity additions: a weak signal adds 0.45, so that the
\* additions alone reach the threshold.
HeuristicConfidence_LargeBonus(points) ==
    LET den == PolyfitDenominator(Len(points))
        signal_declining == PolyfitNumerator(Signals(points)) < -5 * den
        bandwidth_declining == PolyfitNumerator(Bandwidthsof(points)) < -100 * den
        latency_increasing == PolyfitNumerator(Latencies(points)) > 50 * den
        indicators_triggered ==
            (IF signal_declining THEN 1 ELSE 0) + (IF bandwidth_declining THEN 1 ELSE 0)
            + (IF latency_increasing THEN 1 ELSE 0)
        last == points[Len(points)]
    IN  Min(100, (IF indicators_triggered >= 2 THEN 60 ELSE 0)
                 + (IF last.signal_strength < 30 THEN 45 ELSE 0)
                 + (IF last.bandwidth_kbps < 500 THEN 15 ELSE 0)
                 + (IF last.latency_ms > 500 THEN 15 ELSE 0))

\* A slip in the base confidence: one indicator is enough.
HeuristicConfidence_OneIndicator(points) ==
    LET den == PolyfitDenominator(Len(points))
        signal_declining == PolyfitNumerator(Signals(points)) < -5 * den
        bandwidth_declining == PolyfitNumerator(Bandwidthsof(points)) < -100 * den
        latency_increasing == PolyfitNumerator(Latencies(points)) > 50 * den
        indicators_triggered ==
            (IF signal_declining THEN 1 ELSE 0) + (IF bandwidth_declining THEN 1 ELSE 0)
            + (IF latency_increasing THEN 1 ELSE 0)
        last == points[Len(points)]
    IN  Min(100, (IF indicators_triggered >= 1 THEN 60 ELSE 0)
                 + (IF last.signal_strength < 30 THEN 20 ELSE 0)
                 + (IF last.bandwidth_kbps < 500 THEN 15 ELSE 0)
                 + (IF last.latency_ms > 500 THEN 15 ELSE 0))

\* The confidence _predict_with_heuristic computes (hundredths).
HeuristicConfidence(points) ==
    LET den == PolyfitDenominator(Len(points))
        signal_declining == PolyfitNumerator(Signals(points)) < -5 * den
        bandwidth_declining == PolyfitNumerator(Bandwidthsof(points)) < -100 * den
        latency_increasing == PolyfitNumerator(Latencies(points)) > 50 * den
        indicators_triggered ==
            (IF signal_declining THEN 1 ELSE 0) + (IF bandwidth_declining THEN 1 ELSE 0)
            + (IF latency_increasing THEN 1 ELSE 0)
        last == points[Len(points)]
    IN  Min(100, (IF indicators_triggered >= 2 THEN 60 ELSE 0)
                 + (IF last.signal_strength < 30 THEN 20 ELSE 0)
                 + (IF last.bandwidth_kbps < 500 THEN 15 ELSE 0)
                 + (IF last.latency_ms > 500 THEN 15 ELSE 0))

\* _predict_with_heuristic(telemetry_points, device_id, session_id)
PredictWithHeuristic(points, d, s, t) ==
    LET den == PolyfitDenominator(Len(points))
        signal_declining == PolyfitNumerator(Signals(points)) < -5 * den
        last == points[Len(points)]
        confidence == HeuristicConfidence(points)
    IN  IF confidence >= PREDICTION_THRESHOLD
        THEN Prediction(d, s, t, confidence,
                        IF signal_declining THEN ClampedTimeToDrop(points, 5000) ELSE 3000,
                        Max(0, (last.bandwidth_kbps * den
                                + 3 * PolyfitNumerator(Bandwidthsof(points))) \div den),
                        "heuristic_fallback", "heuristic")
        ELSE None

\* A slip in the length check: one point fewer is let through.
PredictorResult_ShortWindow(m, telemetry_history, d, s, outcome, t) ==
    IF Len(telemetry_history) < sequence_length - 1 THEN None
    ELSE LET recent_points == LastSlice(telemetry_history, sequence_length)
         IN  IF m # "none"
             THEN PredictWithModel(recent_points, d, s, outcome, t)
             ELSE PredictWithHeuristic(recent_points, d, s, t)

\* LSTMPredictor.predict_signal_drop(telemetry_history, device_id, session_id)
\* with self.model = m.
PredictorResult(m, telemetry_history, d, s, outcome, t) ==
    IF Len(telemetry_history) < sequence_length THEN None
    ELSE LET recent_points == LastSlice(telemetry_history, sequence_length)
         IN  IF m # "none"
             THEN PredictWithModel(recent_points, d, s, outcome, t)
             ELSE PredictWithHeuristic(recent_points, d, s, t)

\* A direct call of the predictor.
predictor_predict_signal_drop(telemetry_history, d, s, outcome) ==
    /\ sentry_ret' = [op |-> "predictor", key |-> Key(d, s),
                      window |-> telemetry_history, model |-> model,
                      outcome |-> outcome, at |-> now,
                      prediction |-> PredictorResult(model, telemetry_history, d, s,
                                                     outcome, now)]
    /\ UNCHANGED <<telemetry_buffer, prediction_cache, model, ingested, now, orch_vars>>

\* load_model(model_path): the model is loaded, or loading fails and leaves None.
load_model(ok) ==
    /\ model' = IF ok THEN "loaded" ELSE "none"
    /\ sentry_ret' = [op |-> "load_model", result |-> ok]
    /\ UNCHANGED <<telemetry_buffer, prediction_cache, ingested, now, orch_vars>>

-----------------------------------------------------------------------------
(* NetworkSentryAgent: prediction cache and predict_signal_drop *)

\* A slip in _get_cached_prediction: the age is not looked at.
GetCachedPrediction_NoExpiry(cache, cache_key, t) ==
    IF cache_key \in DOMAIN cache
    THEN [prediction |-> cache[cache_key], cache |-> cache]
    ELSE [prediction |-> None, cache |-> cache]

\* _get_cached_prediction(cache_key) at clock reading t: what it returns and
\* the cache it leaves.
\* A slip in _get_cached_prediction: the "del" of the expired entry left out.
GetCachedPrediction_KeepsExpired(cache, cache_key, t) ==
    IF cache_key \in DOMAIN cache
    THEN IF t - cache[cache_key].timestamp < cache_ttl_seconds
         THEN [prediction |-> cache[cache_key], cache |-> cache]
         ELSE [prediction |-> None, cache |-> cache]
    ELSE [prediction |-> None, cache |-> cache]

\* _get_cached_prediction(cache_key), the clock reading t: what it returns
\* and the cache it leaves.
GetCachedPrediction(cache, cache_key, t) ==
    IF cache_key \in DOMAIN cache
    THEN IF t - cache[cache_key].timestamp < cache_ttl_seconds
         THEN [prediction |-> cache[cache_key], cache |-> cache]
         ELSE [prediction |-> None, cache |-> DictDel(cache, cache_key)]
    ELSE [prediction |-> None, cache |-> cache]

\* _cache_prediction(cache_key, prediction)
CachePrediction(cache, cache_key, prediction) ==
    DictSet(cache, cache_key, prediction)

\* A slip in the thresholds: the comparisons include the limits.
DetermineRecommendedAction_Inclusive(prediction, current_telemetry) ==
    IF prediction.confidence >= 90 /\ prediction.predicted_time_ms <= 2000
    THEN IF prediction.predicted_bandwidth_kbps < AUDIO_MIN_BANDWIDTH
         THEN "IMMEDIATE_TEXT_FALLBACK" ELSE "IMMEDIATE_AUDIO_FALLBACK"
    ELSE IF prediction.confidence >= 75 /\ prediction.predicted_time_ms <= 5000
    THEN IF prediction.predicted_bandwidth_kbps < AUDIO_MIN_BANDWIDTH
         THEN "PREPARE_TEXT_FALLBACK" ELSE "PREPARE_AUDIO_FALLBACK"
    ELSE "PREPARE_FALLBACK"

\* _determine_recommended_action(prediction, current_telemetry)
DetermineRecommendedAction(prediction, current_telemetry) ==
    IF prediction.confidence > 90 /\ prediction.predicted_time_ms < 2000
    THEN IF prediction.predicted_bandwidth_kbps < AUDIO_MIN_BANDWIDTH
         THEN "IMMEDIATE_TEXT_FALLBACK" ELSE "IMMEDIATE_AUDIO_FALLBACK"
    ELSE IF prediction.confidence > 75 /\ prediction.predicted_time_ms < 5000
    THEN IF prediction.predicted_bandwidth_kbps < AUDIO_MIN_BANDWIDTH
         THEN "PREPARE_TEXT_FALLBACK" ELSE "PREPARE_AUDIO_FALLBACK"
    ELSE "PREPARE_FALLBACK"

\* A PredictionResponse object.
PredictionResponse(prediction, should_prepare_transition, recommended_action) ==
    [prediction |-> prediction,
     should_prepare_transition |-> should_prepare_transition,
     recommended_action |-> recommended_action]

\* The optional argument recent_telemetry when the caller passes a list.
Given(points) == [is_none |-> FALSE, points |-> points]

\* The telemetry predict_signal_drop works on: the caller's list, or the
\* last 30 points of the buffer when the caller passes None.
ResolvedTelemetry(device_id, session_id, recent_telemetry) ==
    IF recent_telemetry.is_none
    THEN get_recent_telemetry(device_id, session_id, 30)
    ELSE recent_telemetry.points

\* prepare_features reads the five metrics of each of the last sequence_length
\* points (packet_loss_percent is not modelled): an object without one of them
\* raises AttributeError, which the predictor does not catch.
PrepareFeaturesRaises(telemetry) ==
    /\ Len(telemetry) >= sequence_length
    /\ \E i \in (Len(telemetry) - sequence_length + 1)..Len(telemetry) :
           ~({"signal_strength", "latency_ms", "bandwidth_kbps", "gps_velocity_kmh"}
                 \subseteq DOMAIN telemetry[i])

\* A slip in the response without prediction: it asks to prepare a transition.
ComputedPrediction_AlwaysPrepares(cache, device_id, session_id, telemetry, outcome) ==
    IF Len(telemetry) < MIN_POINTS_FOR_PREDICTION
    THEN [response |-> PredictionResponse(None, FALSE, "COLLECT_MORE_DATA"),
          cache |-> cache]
    ELSE IF PrepareFeaturesRaises(telemetry)
    THEN [response |-> PredictionResponse(None, FALSE, "ERROR"), cache |-> cache]
    ELSE LET prediction == PredictorResult(model, telemetry, device_id, session_id,
                                           outcome, now)
         IN  IF prediction # None
             THEN [response |-> PredictionResponse(prediction, TRUE,
                                    DetermineRecommendedAction(prediction,
                                                               telemetry[Len(telemetry)])),
                   cache |-> CachePrediction(cache, Key(device_id, session_id), prediction)]
             ELSE [response |-> PredictionResponse(None, TRUE, "CONTINUE_MONITORING"),
                   cache |-> cache]

\* predict_signal_drop after the cache missed: the response and the cache
\* left.  An exception of the predictor is caught by the handler's except
\* branch, which answers ERROR; nothing was cached before it.
ComputedPrediction(cache, device_id, session_id, telemetry, outcome) ==
    IF Len(telemetry) < MIN_POINTS_FOR_PREDICTION
    THEN [response |-> PredictionResponse(None, FALSE, "COLLECT_MORE_DATA"),
          cache |-> cache]
    ELSE IF PrepareFeaturesRaises(telemetry)
    THEN [response |-> PredictionResponse(None, FALSE, "ERROR"), cache |-> cache]
    ELSE LET prediction == PredictorResult(model, telemetry, device_id, session_id,
                                           outcome, now)
         IN  IF prediction # None
             THEN [response |-> PredictionResponse(prediction, TRUE,
                                    DetermineRecommendedAction(prediction,
                                                               telemetry[Len(telemetry)])),
                   cache |-> CachePrediction(cache, Key(device_id, session_id), prediction)]
             ELSE [response |-> PredictionResponse(None, FALSE, "CONTINUE_MONITORING"),
                   cache |-> cache]

\* A slip in predict_signal_drop: telemetry supplied with the request makes
\* the call compute, whatever the cache holds.
predict_signal_drop_SuppliedBypassesCache(device_id, session_id, recent_telemetry, outcome) ==
    LET cache_key == Key(device_id, session_id)
        cached == GetCachedPrediction(prediction_cache, cache_key, now)
        telemetry == ResolvedTelemetry(device_id, session_id, recent_telemetry)
        computed == ComputedPrediction(cached.cache, device_id, session_id, telemetry,
                                       outcome)
        hit == cached.prediction # None /\ recent_telemetry.is_none
    IN  /\ prediction_cache' = IF hit THEN cached.cache ELSE computed.cache
        /\ sentry_ret' =
               [op |-> "predict", key |-> cache_key, at |-> now, cache_hit |-> hit,
                window |-> telemetry, model |-> model, outcome |-> outcome,
                response |-> IF hit
                             THEN PredictionResponse(cached.prediction, TRUE,
                                                     "PREPARE_FALLBACK")
                             ELSE computed.response]
        /\ UNCHANGED <<telemetry_buffer, model, ingested, now, orch_vars>>

\* NetworkSentryAgent.predict_signal_drop(device_id, session_id, recent_telemetry)
predict_signal_drop(device_id, session_id, recent_telemetry, outcome) ==
    LET cache_key == Key(device_id, session_id)
        cached == GetCachedPrediction(prediction_cache, cache_key, now)
        telemetry == ResolvedTelemetry(device_id, session_id, recent_telemetry)
        computed == ComputedPrediction(cached.cache, device_id, session_id, telemetry,
                                       outcome)
        hit == cached.prediction # None
    IN  /\ prediction_cache' = IF hit THEN cached.cache ELSE computed.cache
        /\ sentry_ret' =
               [op |-> "predict", key |-> cache_key, at |-> now, cache_hit |-> hit,
                window |-> telemetry, model |-> model, outcome |-> outcome,
                response |-> IF hit
                             THEN PredictionResponse(cached.prediction, TRUE,
                                                     "PREPARE_FALLBACK")
                             ELSE computed.response]
        /\ UNCHANGED <<telemetry_buffer, model, ingested, now, orch_vars>>

\* A call of _get_cached_prediction(cache_key) on its own.
get_cached_prediction(device_id, session_id) ==
    LET cached == GetCachedPrediction(prediction_cache, Key(device_id, session_id), now)
    IN  /\ prediction_cache' = cached.cache
        /\ sentry_ret' = [op |-> "cache_get", key |-> Key(device_id, session_id),
                          device_id |-> device_id, session_id |-> session_id,
                          found |-> Key(device_id, session_id) \in DOMAIN prediction_cache,
                          at |-> now, prediction |-> cached.prediction]
        /\ UNCHANGED <<telemetry_buffer, model, ingested, now, orch_vars>>

\* A call of _cache_prediction(cache_key, prediction) on its own.
cache_prediction(device_id, session_id, prediction) ==
    /\ prediction_cache' = CachePrediction(prediction_cache, Key(device_id, session_id),
                                           prediction)
    /\ sentry_ret' = [op |-> "cache_put", key |-> Key(device_id, session_id),
                      at |-> now, prediction |-> prediction]
    /\ UNCHANGED <<telemetry_buffer, model, ingested, now, orch_vars>>

RECURSIVE SumSquares(_)
SumSquares(ys) == IF ys = <<>> THEN 0 ELSE Head(ys) * Head(ys) + SumSquares(Tail(ys))

\* variance > 0.1 for the population variance sum((x - mean)**2) / len of
\* signal strengths kept in hundredths:
\* (n * sum(x^2) - sum(x)^2) / n^2 > HIGH_VARIANCE.
HighVariance(signal_strengths) ==
    LET n == Len(signal_strengths)
    IN  n * SumSquares(signal_strengths) - Sum(signal_strengths) * Sum(signal_strengths)
            > n * n * HIGH_VARIANCE

\* A slip in the speed test: > where the code has >=.
should_increase_monitoring_frequency_StrictSpeed(device_id, session_id) ==
    LET recent == get_recent_telemetry(device_id, session_id, FREQUENCY_WINDOW)
    IN  IF recent = <<>> THEN FALSE
        ELSE IF recent[Len(recent)].gps_velocity_kmh > HIGH_SPEED_THRESHOLD_KMH THEN TRUE
        ELSE IF Len(recent) >= FREQUENCY_WINDOW THEN HighVariance(Signals(recent))
        ELSE FALSE

should_increase_monitoring_frequency(device_id, session_id) ==
    LET recent == get_recent_telemetry(device_id, session_id, FREQUENCY_WINDOW)
    IN  IF recent = <<>> THEN FALSE
        ELSE IF recent[Len(recent)].gps_velocity_kmh >= HIGH_SPEED_THRESHOLD_KMH THEN TRUE
        ELSE IF Len(recent) >= FREQUENCY_WINDOW THEN HighVariance(Signals(recent))
        ELSE FALSE

get_monitoring_frequency(device_id, session_id) ==
    IF should_increase_monitoring_frequency(device_id, session_id)
    THEN HIGH_SPEED_MONITORING_FREQUENCY_HZ
    ELSE MONITORING_FREQUENCY_HZ

\* A call of get_monitoring_frequency: nothing is stored or removed.
get_monitoring_frequency_call(device_id, session_id) ==
    /\ sentry_ret' = [op |-> "frequency", key |-> Key(device_id, session_id),
                      result |-> get_monitoring_frequency(device_id, session_id)]
    /\ UNCHANGED <<telemetry_buffer, prediction_cache, model, ingested, now, orch_vars>>

\* The wall clock moves on by a second.
Tick ==
    /\ now < MaxTime
    /\ now' = now + 1
    /\ UNCHANGED <<sentry_vars, orch_vars>>

-----------------------------------------------------------------------------
(* Modality models *)

Modalities == {"VIDEO", "AUDIO", "TEXT_SUMMARY"}
Timings == {"IMMEDIATE", "WAIT_2S", "WAIT_5S"}

\* A ModalityDecisionResponse (decision_id and processing_time_ms left out).
Response(target, timing, reasoning, strategy, confidence, model_used) ==
    [target_modality |-> target, transition_timing |-> timing,
     reasoning |-> reasoning, fallback_strategy |-> strategy,
     decision_confidence |-> confidence, model_used |-> model_used]

\* Modality(value) and TransitionTiming(value) raise ValueError on any other
\* value; decision_confidence is validated ge=0.0, le=1.0.
ValidModality(v) == v \in Modalities
ValidTiming(v) == v \in Timings
\* A slip in the response model: le=1.0 left out.
ValidConfidence_NoUpperBound(c) == c >= 0
\* decision_confidence: float = Field(..., ge=0.0, le=1.0), in hundredths
ValidConfidence(c) == c >= 0 /\ c <= 100

-----------------------------------------------------------------------------
(* ModalityOrchestrator: session state *)

\* status.transition_history[-10:]
\* A slip in the trimming slice: the first HISTORY_LIMIT entries are kept.
TrimmedHistory_KeepOldest(history) ==
    IF Len(history) > HISTORY_LIMIT THEN SubSeq(history, 1, HISTORY_LIMIT) ELSE history

\* transition_history[-10:] once the history holds more than 10 entries.
TrimmedHistory(history) ==
    IF Len(history) > HISTORY_LIMIT THEN LastSlice(history, HISTORY_LIMIT) ELSE history

\* A slip in the bookkeeping: the success counter is not advanced.
RecordedTransition_NoSuccessCount(status, from_modality, to_modality, content_position, success, t) ==
    [status EXCEPT
        !.transition_count = @ + 1,
        !.transition_history = TrimmedHistory(Append(@,
            [from |-> from_modality, to |-> to_modality, timestamp |-> t,
             position |-> content_position, success |-> success]))]

\* The "if from_modality != to_modality" block of _update_session_state.
RecordedTransition(status, from_modality, to_modality, content_position, success, t) ==
    [status EXCEPT
        !.transition_count = @ + 1,
        !.transition_history = TrimmedHistory(Append(@,
            [from |-> from_modality, to |-> to_modality, timestamp |-> t,
             position |-> content_position, success |-> success])),
        !.successful_transitions = IF success THEN @ + 1 ELSE @,
        !.failed_transitions = IF success THEN @ ELSE @ + 1]

NewStatus(session_id, device_id, content_id, to_modality, content_position, t) ==
    [session_id |-> session_id, device_id |-> device_id, content_id |-> content_id,
     current_modality |-> to_modality, content_position |-> content_position,
     last_transition_timestamp |-> t, transition_count |-> 0,
     transition_history |-> <<>>, total_buffering_events |-> 0,
     successful_transitions |-> 0, failed_transitions |-> 0]

\* A slip in _update_session_state: the last three assignments moved into
\* the "if from_modality != to_modality" block.
UpdatedSessionStates_OnlyOnChange(states, session_id, device_id, content_id, from_modality, to_modality, content_position, success, t) ==
    LET status == IF session_id \notin DOMAIN states
                  THEN NewStatus(session_id, device_id, content_id, to_modality,
                                 content_position, t)
                  ELSE states[session_id]
    IN  DictSet(states, session_id,
                IF from_modality # to_modality
                THEN [RecordedTransition(status, from_modality, to_modality,
                                         content_position, success, t)
                          EXCEPT !.current_modality = to_modality,
                                 !.content_position = content_position,
                                 !.last_transition_timestamp = t]
                ELSE status)

\* A slip in _update_session_state: the transition is recorded without the
\* test "if from_modality != to_modality".
UpdatedSessionStates_AlwaysRecords(states, session_id, device_id, content_id, from_modality, to_modality, content_position, success, t) ==
    LET status == IF session_id \notin DOMAIN states
                  THEN NewStatus(session_id, device_id, content_id, to_modality,
                                 content_position, t)
                  ELSE states[session_id]
    IN  DictSet(states, session_id,
                [RecordedTransition(status, from_modality, to_modality,
                                    content_position, success, t)
                     EXCEPT !.current_modality = to_modality,
                            !.content_position = content_position,
                            !.last_transition_timestamp = t])

\* session_states after _update_session_state(...), the clock reading t.
UpdatedSessionStates(states, session_id, device_id, content_id, from_modality, to_modality, content_position, success, t) ==
    LET status == IF session_id \notin DOMAIN states
                  THEN NewStatus(session_id, device_id, content_id, to_modality,
                                 content_position, t)
                  ELSE states[session_id]
        recorded == IF from_modality # to_modality
                    THEN RecordedTransition(status, from_modality, to_modality,
                                            content_position, success, t)
                    ELSE status
    IN  DictSet(states, session_id,
                [recorded EXCEPT !.current_modality = to_modality,
                                 !.content_position = content_position,
                                 !.last_transition_timestamp = t])

\* The history after one more _update_session_state: a call that changes
\* the modality is a transition, and is written down with the caller's device.
DecidedAfterUpdate(log, request, to_modality) ==
    LET before == DictGet(log, request.session_id, <<>>)
    IN  DictSet(log, request.session_id,
                IF request.current_modality # to_modality
                THEN Append(before,
                            [device_id |-> request.device_id,
                             from |-> request.current_modality, to |-> to_modality,
                             position |-> request.content_position, timestamp |-> now])
                ELSE before)

-----------------------------------------------------------------------------
(* ModalityOrchestrator: the panic path *)

\* A slip in the last branch: the modality the session's state holds is kept
\* where the code keeps the one the request reports.
PanicDecision_KeepsStored(request) ==
    IF request.current_bandwidth_kbps < AUDIO_MIN_BANDWIDTH \/ request.buffer_level < 10
    THEN Response("TEXT_SUMMARY", "IMMEDIATE", "critical",
                  "If fails, escalate to next lower modality", 95,
                  "rule-based-panic-handler")
    ELSE IF request.current_bandwidth_kbps < VIDEO_MIN_BANDWIDTH
    THEN Response("AUDIO", "IMMEDIATE", "severe",
                  "If fails, escalate to next lower modality", 90,
                  "rule-based-panic-handler")
    ELSE Response(IF request.session_id \in DOMAIN session_states
                  THEN session_states[request.session_id].current_modality
                  ELSE request.current_modality,
                  "WAIT_2S", "monitoring",
                  "If fails, escalate to next lower modality", 80,
                  "rule-based-panic-handler")

\* A slip in the first threshold: <= in place of <.
PanicDecision_InclusiveThreshold(request) ==
    IF request.current_bandwidth_kbps <= AUDIO_MIN_BANDWIDTH \/ request.buffer_level < 10
    THEN Response("TEXT_SUMMARY", "IMMEDIATE", "critical",
                  "If fails, escalate to next lower modality", 95,
                  "rule-based-panic-handler")
    ELSE IF request.current_bandwidth_kbps < VIDEO_MIN_BANDWIDTH
    THEN Response("AUDIO", "IMMEDIATE", "severe",
                  "If fails, escalate to next lower modality", 90,
                  "rule-based-panic-handler")
    ELSE Response(request.current_modality, "WAIT_2S", "monitoring",
                  "If fails, escalate to next lower modality", 80,
                  "rule-based-panic-handler")

\* handle_panic_signal's rule; buffer_level_seconds < 1.0 is buffer level < 10 tenths.
PanicDecision(request) ==
    IF request.current_bandwidth_kbps < AUDIO_MIN_BANDWIDTH \/ request.buffer_level < 10
    THEN Response("TEXT_SUMMARY", "IMMEDIATE", "critical",
                  "If fails, escalate to next lower modality", 95,
                  "rule-based-panic-handler")
    ELSE IF request.current_bandwidth_kbps < VIDEO_MIN_BANDWIDTH
    THEN Response("AUDIO", "IMMEDIATE", "severe",
                  "If fails, escalate to next lower modality", 90,
                  "rule-based-panic-handler")
    ELSE Response(request.current_modality, "WAIT_2S", "monitoring",
                  "If fails, escalate to next lower modality", 80,
                  "rule-based-panic-handler")

handle_panic_signal(request) ==
    LET response == PanicDecision(request)
    IN  /\ pc = "idle"
        /\ session_states' = UpdatedSessionStates(session_states, request.session_id,
                request.device_id, request.content_id, request.current_modality,
                response.target_modality, request.content_position, TRUE, now)
        /\ orch_ret' = [op |-> "panic", request |-> request, response |-> response,
                        path |-> "panic", raised |-> FALSE]
        /\ decided' = DecidedAfterUpdate(decided, request, response.target_modality)
        /\ UNCHANGED <<client, pc, pending, oracle_reply, cleared, now, sentry_vars>>

\* What the endpoint GET /modality/status/{session_id} answers: 404 when
\* get_session_status returned None, the status otherwise.
StatusAnswer(status_data) ==
    IF status_data = None
    THEN [http |-> 404, detail |-> "not found"]
    ELSE [http |-> 200, detail |-> "status"]

\* What the endpoint DELETE /modality/session/{session_id} answers after
\* clear_session returned; existed tells whether the session had state.
ClearAnswer(existed) ==
    [http |-> 200, detail |-> "Session state cleared"]

\* A slip in get_session_status: session_states[session_id] on a table that
\* makes a default entry for a missing key.
get_session_status_Creates(session_id) ==
    /\ pc = "idle"
    /\ session_states' = IF session_id \in DOMAIN session_states THEN session_states
                         ELSE DictSet(session_states, session_id,
                                      NewStatus(session_id, "", "", "VIDEO", 0, now))
    /\ orch_ret' = [op |-> "status", session_id |-> session_id,
                    response |-> session_states'[session_id],
                    answer |-> StatusAnswer(session_states'[session_id]),
                    raised |-> FALSE]
    /\ decided' = IF session_id \in DOMAIN decided THEN decided
                  ELSE DictSet(decided, session_id, <<>>)
    /\ UNCHANGED <<client, pc, pending, oracle_reply, cleared, now, sentry_vars>>

get_session_status(session_id) ==
    /\ pc = "idle"
    /\ orch_ret' = [op |-> "status", session_id |-> session_id,
                    response |-> DictGet(session_states, session_id, None),
                    answer |-> StatusAnswer(DictGet(session_states, session_id, None)),
                    raised |-> FALSE]
    /\ UNCHANGED <<session_states, client, pc, pending, oracle_reply, decided, cleared,
                   now, sentry_vars>>

\* A slip in clear_session: the entry is not deleted.
clear_session_KeepsState(session_id) ==
    /\ pc = "idle"
    /\ session_states' = session_states
    /\ orch_ret' = [op |-> "clear", session_id |-> session_id, response |-> None,
                    existed |-> session_id \in DOMAIN session_states,
                    answer |-> ClearAnswer(session_id \in DOMAIN session_states),
                    raised |-> FALSE]
    /\ decided' = DictDel(decided, session_id)
    /\ cleared' = IF session_id \in DOMAIN session_states
                  THEN cleared \cup {session_id} ELSE cleared
    /\ UNCHANGED <<client, pc, pending, oracle_reply, now, sentry_vars>>

clear_session(session_id) ==
    /\ pc = "idle"
    /\ session_states' = DictDel(session_states, session_id)
    /\ orch_ret' = [op |-> "clear", session_id |-> session_id, response |-> None,
                    existed |-> session_id \in DOMAIN session_states,
                    answer |-> ClearAnswer(session_id \in DOMAIN session_states),
                    raised |-> FALSE]
    /\ decided' = DictDel(decided, session_id)
    /\ cleared' = IF session_id \in DOMAIN session_states
                  THEN cleared \cup {session_id} ELSE cleared
    /\ UNCHANGED <<client, pc, pending, oracle_reply, now, sentry_vars>>

-----------------------------------------------------------------------------
(* BedrockClient *)

\* _get_fallback_decision(context): the client's own rule-based decision
\* (visual_dependency < 0.7 is < 70 hundredths).
BedrockFallbackDecision(context) ==
    LET rule == IF context.available_bandwidth_kbps >= 1000
                   /\ context.visual_dependency_score < 70
                THEN <<"VIDEO", "IMMEDIATE">>
                ELSE IF context.available_bandwidth_kbps >= 500
                THEN <<"AUDIO", "WAIT_2S">>
                ELSE <<"TEXT_SUMMARY", "IMMEDIATE">>
    IN  [target_modality |-> rule[1], transition_timing |-> rule[2],
         reasoning |-> "[Fallback rule-based decision]",
         fallback_strategy |-> "Continue with best-effort delivery",
         decision_confidence |-> 60, model_used |-> "rule-based-fallback"]

\* _get_mock_response(prompt): one of two canned decisions, chosen by whether
\* the prompt text contains "800" or "low".
MockDecisions ==
    { [target_modality |-> "AUDIO", transition_timing |-> "WAIT_2S",
       reasoning |-> "mock", fallback_strategy |-> "mock",
       decision_confidence |-> 85],
      [target_modality |-> "VIDEO", transition_timing |-> "IMMEDIATE",
       reasoning |-> "mock", fallback_strategy |-> "mock",
       decision_confidence |-> 90] }

\* What invoke_model gives get_modality_decision:
\*   error    - the call raised; invoke_model returns success False
\*   content  - success True with a text that is no JSON (json = "invalid"),
\*              JSON that is no object ("nondict"), or a JSON object ("dict").
ErrorReply == [kind |-> "error"]
InvalidJsonReply == [kind |-> "content", json |-> "invalid"]
NonDictReply == [kind |-> "content", json |-> "nondict"]
DictReply(decision) == [kind |-> "content", json |-> "dict", decision |-> decision]

\* get_modality_decision(context) once invoke_model has produced reply: the
\* decision dict, or an exception that leaves the method (decision[...] = ...
\* on a JSON value that is no object raises TypeError, which is not caught).
GetModalityDecision(context, reply) ==
    IF reply.kind = "error"
    THEN [raised |-> FALSE, data |-> BedrockFallbackDecision(context)]
    ELSE IF reply.json = "invalid"
    THEN [raised |-> FALSE, data |-> BedrockFallbackDecision(context)]
    ELSE IF reply.json = "nondict"
    THEN [raised |-> TRUE, error |-> "TypeError"]
    ELSE [raised |-> FALSE, data |-> reply.decision]

-----------------------------------------------------------------------------
(* ModalityOrchestrator: decide *)

\* _get_safe_fallback_decision(request)
SafeFallbackDecision(request) ==
    LET target == IF request.available_bandwidth_kbps >= VIDEO_MIN_BANDWIDTH THEN "VIDEO"
                  ELSE IF request.available_bandwidth_kbps >= AUDIO_MIN_BANDWIDTH THEN "AUDIO"
                  ELSE "TEXT_SUMMARY"
    IN  Response(target, "IMMEDIATE", "[Fallback decision]",
                 "Continue best-effort delivery", 60, "rule-based-fallback")

\* Lines 86-100 of decide_modality_transition: the response parsed from the
\* decision dict, or the exception raised when an enum or the response model
\* rejects a value.
ParsedDecision(data) ==
    LET target == DictGet(data, "target_modality", "VIDEO")
        timing == DictGet(data, "transition_timing", "IMMEDIATE")
        confidence == DictGet(data, "decision_confidence", 80)
    IN  IF ~ValidModality(target) \/ ~ValidTiming(timing)
        THEN [raised |-> TRUE, error |-> "ValueError"]
        ELSE IF ~ValidConfidence(confidence)
        THEN [raised |-> TRUE, error |-> "ValidationError"]
        ELSE [raised |-> FALSE,
              response |-> Response(target, timing,
                                    DictGet(data, "reasoning", "AI decision reasoning"),
                                    DictGet(data, "fallback_strategy", "None"),
                                    confidence,
                                    DictGet(data, "model_used", "bedrock-claude-3.5-sonnet"))]

\* The try block of decide_modality_transition from the oracle call's outcome
\* on: got is what get_modality_decision returned or raised.  The session
\* state is updated after the response is built, so a raise leaves it alone.
DecideTryBlock(request, got) ==
    LET parsed == IF got.raised THEN got ELSE ParsedDecision(got.data)
    IN  IF parsed.raised
        THEN [raised |-> TRUE, error |-> parsed.error]
        ELSE [raised |-> FALSE, response |-> parsed.response,
              states |-> UpdatedSessionStates(session_states, request.session_id,
                            request.device_id, request.content_id,
                            request.current_modality,
                            parsed.response.target_modality,
                            request.content_position, TRUE, now)]

\* A slip in the handler: "except ValueError" in place of "except Exception".
DecideCompletion_CatchesValueError(request, got) ==
    LET body == DecideTryBlock(request, got)
    IN  IF ~body.raised
        THEN [raised |-> FALSE, response |-> body.response, states |-> body.states,
              path |-> "try"]
        ELSE IF body.error = "ValueError"
        THEN [raised |-> FALSE, response |-> SafeFallbackDecision(request),
              states |-> session_states, path |-> "except"]
        ELSE [raised |-> TRUE, response |-> None, states |-> session_states,
              path |-> "raise"]

\* decide_modality_transition from the oracle call's outcome to its return:
\* the try block, and on any Exception the safe fallback decision.
DecideCompletion(request, got) ==
    LET body == DecideTryBlock(request, got)
    IN  IF ~body.raised
        THEN [raised |-> FALSE, response |-> body.response, states |-> body.states,
              path |-> "try"]
        ELSE [raised |-> FALSE, response |-> SafeFallbackDecision(request),
              states |-> session_states, path |-> "except"]

DecideReturn(request, reply, done) ==
    /\ session_states' = done.states
    /\ orch_ret' = [op |-> "decide", request |-> request, reply |-> reply,
                    response |-> done.response, path |-> done.path,
                    raised |-> done.raised]
    /\ decided' = IF done.path = "try"
                  THEN DecidedAfterUpdate(decided, request, done.response.target_modality)
                  ELSE decided
    /\ UNCHANGED cleared

\* decide_modality_transition up to the oracle call.  The prompt is built
\* first: ', '.join(key_concepts) raises TypeError when key_concepts is None.
\* Without a boto3 client the mock answers at once and the handler runs to its
\* end; with one, the handler stops in client.invoke_model.
DecideStart(request) ==
    /\ pc = "idle"
    /\ IF request.key_concepts = "none"
       THEN /\ DecideReturn(request, [kind |-> "prompt_error"],
                            DecideCompletion(request,
                                [raised |-> TRUE, error |-> "TypeError"]))
            /\ UNCHANGED <<pc, pending, oracle_reply>>
       ELSE IF client = "none"
       THEN /\ \E mock \in MockDecisions :
                  DecideReturn(request, DictReply(mock),
                      DecideCompletion(request,
                          GetModalityDecision(request, DictReply(mock))))
            /\ UNCHANGED <<pc, pending, oracle_reply>>
       ELSE /\ pc' = "calling"
            /\ pending' = request
            /\ orch_ret' = [op |-> "decide_waiting"]
            /\ UNCHANGED <<session_states, oracle_reply, decided, cleared>>
    /\ UNCHANGED <<client, now, sentry_vars>>

\* client.invoke_model(...) returns or raises: the only way out of the call.
\* It is a synchronous call inside the coroutine, so no other handler runs
\* while it is outstanding.
OracleReturns(reply) ==
    /\ pc = "calling"
    /\ oracle_reply' = reply
    /\ pc' = "replied"
    /\ UNCHANGED <<session_states, client, pending, orch_ret, decided, cleared,
                   now, sentry_vars>>

\* decide_modality_transition from the oracle call's return to its own.
DecideFinish ==
    /\ pc = "replied"
    /\ DecideReturn(pending, oracle_reply,
                    DecideCompletion(pending, GetModalityDecision(pending, oracle_reply)))
    /\ pc' = "idle"
    /\ pending' = None
    /\ oracle_reply' = None
    /\ UNCHANGED <<client, now, sentry_vars>>

\* The await in decide_modality_transition taken at its widest.  The handler
\* has one await, "await self.bedrock_client.get_modality_decision(context)";
\* the three actions below let the coroutine be suspended there, so that
\* other handlers run on the event loop before it resumes (pc stays "idle")
\* and so that the task can be cancelled while it waits.  With the boto3
\* client of this repository the call blocks instead (DecideStart,
\* OracleReturns, DecideFinish): those behaviours are the ones below in
\* which nothing runs between decide_suspend and decide_resume.

\* A slip in the handler: the position is written before the await.
decide_suspend_WritesPosition(request) ==
    /\ pc = "idle"
    /\ pending = None
    /\ request.key_concepts # "none"
    /\ client = "boto3"
    /\ pending' = request
    /\ orch_ret' = [op |-> "decide_waiting"]
    /\ session_states' =
           IF request.session_id \in DOMAIN session_states
           THEN [session_states EXCEPT
                    ![request.session_id].content_position = request.content_position]
           ELSE session_states
    /\ UNCHANGED <<client, pc, oracle_reply, decided, cleared, now, sentry_vars>>

\* decide_modality_transition from its start to the await: the context is
\* built, nothing is written.
decide_suspend(request) ==
    /\ pc = "idle"
    /\ pending = None
    /\ request.key_concepts # "none"
    /\ client = "boto3"
    /\ pending' = request
    /\ orch_ret' = [op |-> "decide_waiting"]
    /\ UNCHANGED <<session_states, client, pc, oracle_reply, decided, cleared, now,
                   sentry_vars>>

\* decide_modality_transition from the await's return to its own return, in
\* one piece: no await follows, _update_session_state is a plain method.
decide_resume(reply) ==
    /\ pc = "idle"
    /\ pending # None
    /\ DecideReturn(pending, reply,
                    DecideCompletion(pending, GetModalityDecision(pending, reply)))
    /\ pending' = None
    /\ UNCHANGED <<client, pc, oracle_reply, now, sentry_vars>>

\* The task is cancelled while suspended: CancelledError is raised at the
\* await.  Whether "except Exception" lets it pass (it is a BaseException
\* from Python 3.8 on) or catches it and returns the safe fallback,
\* _update_session_state is not reached, and the caller is gone.
decide_cancel ==
    /\ pc = "idle"
    /\ pending # None
    /\ pending' = None
    /\ orch_ret' = [op |-> "decide_cancelled", request |-> pending]
    /\ UNCHANGED <<session_states, client, pc, oracle_reply, decided, cleared, now,
                   sentry_vars>>

-----------------------------------------------------------------------------
(* Construction *)

Init ==
    /\ telemetry_buffer = EmptyDict
    /\ prediction_cache = EmptyDict
    /\ model \in {"none", "loaded"}
    /\ now = 0
    /\ ingested = EmptyDict
    /\ sentry_ret = [op |-> "init"]
    /\ session_states = EmptyDict
    /\ client \in {"none", "boto3"}
    /\ pc = "idle"
    /\ pending = None
    /\ oracle_reply = None
    /\ orch_ret = [op |-> "init"]
    /\ decided = EmptyDict
    /\ cleared = {}

-----------------------------------------------------------------------------
(* Capacity runs: one client per session sends its samples in order, one   *)
(* by one or in batches; sample number i carries timestamp i.              *)

Sample(d, s, i) ==
    Point(d, s, i, 90, 50, 3000, 45)

SampleBatch(d, s, first, n) ==
    [i \in 1..n |-> Sample(d, s, first + i - 1)]

Sent(d, s) == Len(DictGet(ingested, Key(d, s), <<>>))

IngestLimit(s) == IF s = "s1" THEN MaxIngest ELSE MaxOther

BufferIngest ==
    \E s \in Sessions :
        /\ Sent("d1", s) < IngestLimit(s)
        /\ ingest_telemetry(Sample("d1", s, Sent("d1", s)))

BufferIngestBatch ==
    \E s \in Sessions, n \in {2, MaxBatch} :
        /\ Sent("d1", s) + n <= IngestLimit(s)
        /\ ingest_telemetry_batch(SampleBatch("d1", s, Sent("d1", s), n))

BufferClear ==
    \E s \in Sessions : clear_session_data("d1", s)

NextBuffer == BufferIngest \/ BufferIngestBatch \/ BufferClear

\* The capacity runs touch neither the predictor's model nor the oracle client.
InitBuffer == Init /\ model = "none" /\ client = "none"

SpecBuffer == InitBuffer /\ [][NextBuffer]_vars

-----------------------------------------------------------------------------
(* Batch runs: one device sends batches of up to MaxBatchLen objects and    *)
(* single objects; an object is a sound point, one without device_id, or    *)
(* one without signal_strength, and a batch may mix the two sessions.       *)

PointKinds == {"sound", "no_key", "no_metric"}

BatchObject(kind, s, ts) ==
    CASE kind = "sound"     -> Point("d1", s, ts, 90, 50, 3000, 45)
      [] kind = "no_key"    -> [timestamp |-> ts, signal_strength |-> 90,
                                bandwidth_kbps |-> 3000]
      [] kind = "no_metric" -> [device_id |-> "d1", session_id |-> s,
                                timestamp |-> ts]

\* Which session each position of a batch is for.
SessionPatterns == {<<"s1", "s1">>, <<"s2", "s2">>, <<"s1", "s2">>}

PatternSession(pattern, i) == pattern[2 - (i % 2)]

Stored == Sent("d1", "s1") + Sent("d1", "s2")

BatchIngestBatch ==
    \E n \in 1..MaxBatchLen, pattern \in SessionPatterns :
        \E kinds \in [1..n -> PointKinds] :
            /\ Stored + n <= MaxBatchStored
            /\ ingest_telemetry_batch(
                   [i \in 1..n |->
                       BatchObject(kinds[i], PatternSession(pattern, i), Stored + i)])

BatchIngest ==
    \E kind \in PointKinds, s \in Sessions :
        /\ Stored < MaxBatchStored
        /\ ingest_telemetry(BatchObject(kind, s, Stored + 1))

NextBatch == BatchIngestBatch \/ BatchIngest

SpecBatch == InitBuffer /\ [][NextBatch]_vars

-----------------------------------------------------------------------------
(* Frequency runs: a session is fed up to MaxFrequencyPoints points, slow   *)
(* ones with a weak, middling or full signal and ones at the speed          *)
(* threshold, and is asked for its monitoring frequency at every length.    *)

\* <<signal_strength in hundredths, gps_velocity_kmh>>
FrequencyReadings == {<<0, 59>>, <<50, 59>>, <<100, 59>>, <<50, 60>>}

FrequencyIngest ==
    \E reading \in FrequencyReadings :
        /\ Sent("d1", "s1") < MaxFrequencyPoints
        /\ ingest_telemetry(Point("d1", "s1", Sent("d1", "s1"), reading[1], 50, 3000,
                                  reading[2]))

FrequencyCall ==
    \E s \in Sessions : get_monitoring_frequency_call("d1", s)

FrequencyClear ==
    clear_session_data("d1", "s1")

NextFrequency == FrequencyIngest \/ FrequencyCall \/ FrequencyClear

SpecFrequency == InitBuffer /\ [][NextFrequency]_vars

-----------------------------------------------------------------------------
(* Key runs: three sessions whose identifiers hold the separator ':' of    *)
(* the buffer key ingest up to MaxKeyPoints points each, predict, cache    *)
(* and clear.                                                              *)

\* <<device_id, session_id>>
KeyPairs == {<<"a", "b:c">>, <<"a:b", "c">>, <<"a", "c">>}

KeysIngest ==
    \E pair \in KeyPairs :
        /\ Cardinality({i \in 1..Len(DictGet(ingested, Key(pair[1], pair[2]), <<>>)) :
                           ingested[Key(pair[1], pair[2])][i].device_id = pair[1]})
               < MaxKeyPoints
        /\ ingest_telemetry(Sample(pair[1], pair[2], Sent(pair[1], pair[2])))

KeysPredict ==
    \E pair \in KeyPairs :
        predict_signal_drop(pair[1], pair[2], None, None)

KeysCachePut ==
    \E pair \in KeyPairs :
        cache_prediction(pair[1], pair[2],
                         Prediction(pair[1], pair[2], now, 80, 3000, 400, "lstm_v1", "lstm"))

KeysCacheGet ==
    \E pair \in KeyPairs : get_cached_prediction(pair[1], pair[2])

KeysClear ==
    \E pair \in KeyPairs : clear_session_data(pair[1], pair[2])

NextKeys == KeysIngest \/ KeysPredict \/ KeysCachePut \/ KeysCacheGet \/ KeysClear

SpecKeys == InitBuffer /\ [][NextKeys]_vars

-----------------------------------------------------------------------------
(* Retrieval runs: two sessions are fed a few samples and cleared, and the  *)
(* recent points of either are asked for with every count from 0 up.       *)

RecentIngest ==
    \E s \in Sessions :
        /\ Sent("d1", s) < MaxRecent
        /\ ingest_telemetry(Sample("d1", s, Sent("d1", s)))

RecentCall ==
    \E s \in Sessions, count \in 0..MaxCount : get_recent_telemetry_call("d1", s, count)

RecentClear ==
    \E s \in Sessions : clear_session_data("d1", s)

NextRecent == RecentIngest \/ RecentCall \/ RecentClear

SpecRecent == InitBuffer /\ [][NextRecent]_vars

-----------------------------------------------------------------------------
(* Orchestrator runs *)

Positions == {10, 20}

DecideRequest(d, s, pos, bw, vd, cur, kc) ==
    [device_id |-> d, session_id |-> s, content_id |-> "c1", content_position |-> pos,
     available_bandwidth_kbps |-> bw, visual_dependency_score |-> vd,
     current_modality |-> cur, key_concepts |-> kc]

PanicRequest(d, s, pos, cur, bw, level) ==
    [device_id |-> d, session_id |-> s, content_id |-> "c1", content_position |-> pos,
     current_modality |-> cur, current_bandwidth_kbps |-> bw, buffer_level |-> level]

\* A JSON object with all five fields of the prompt's format.
FullDecision(target, timing, confidence) ==
    [target_modality |-> target, transition_timing |-> timing, reasoning |-> "r",
     fallback_strategy |-> "f", decision_confidence |-> confidence]

\* The transitions a session has recorded.
Recorded(s) == IF s \in DOMAIN session_states THEN session_states[s].transition_count ELSE 0

\* The orchestrator does not read the predictor's model.
InitOrchestrator == Init /\ model = "none"

-----------------------------------------------------------------------------
(* Session runs: one session whose client decides and panics at two        *)
(* positions, reporting any current modality; the oracle answers with each *)
(* modality, fails, or names an unknown modality.  The session records at  *)
(* most MaxTransitions transitions.                                        *)

SessionReplies ==
    {ErrorReply, DictReply(FullDecision("SLIDES", "IMMEDIATE", 85))}
    \cup {DictReply(FullDecision(t, "WAIT_5S", 85)) : t \in Modalities}

Decide ==
    \E pos \in Positions, cur \in Modalities :
        /\ Recorded("s1") < MaxTransitions
        /\ DecideStart(DecideRequest("d1", "s1", pos, 700, 50, cur, "list"))

OracleReply ==
    \E reply \in SessionReplies : OracleReturns(reply)

Panic ==
    \E pos \in Positions, cur \in Modalities, bw \in {200, 1200} :
        /\ handle_panic_signal(PanicRequest("d1", "s1", pos, cur, bw, 50))
        /\ Recorded("s1")' <= MaxTransitions

Status == get_session_status("s1")

Clear == clear_session("s1")

Next == Decide \/ OracleReply \/ DecideFinish \/ Panic \/ Status \/ Clear

Spec == InitOrchestrator /\ [][Next]_vars

-----------------------------------------------------------------------------
(* History runs: one session whose client panics at two positions with a   *)
(* bandwidth that calls for text, for audio or for no change, reporting    *)
(* the modality it is in, until MaxHistoryTransitions transitions are      *)
(* recorded; the session is also read and cleared.                         *)

CurrentModality(s) ==
    IF s \in DOMAIN session_states THEN session_states[s].current_modality ELSE "VIDEO"

HistoryPanic ==
    \E pos \in Positions, bw \in {200, 700, 1200} :
        /\ handle_panic_signal(PanicRequest("d1", "s1", pos, CurrentModality("s1"), bw, 50))
        /\ Recorded("s1")' <= MaxHistoryTransitions

HistoryStatus == get_session_status("s1")

HistoryClear == clear_session("s1")

NextHistory == HistoryPanic \/ HistoryStatus \/ HistoryClear

\* The panic path does not use the oracle client.
InitHistory == InitOrchestrator /\ client = "none"

SpecHistory == InitHistory /\ [][NextHistory]_vars

-----------------------------------------------------------------------------
(* Isolation runs: two devices use the same two session ids; each panics   *)
(* for both, decides for the first, reads and clears, and a session id     *)
(* records at most MaxIsolationTransitions transitions.                    *)

IsolationDecide ==
    \E d \in Devices :
        /\ Recorded("s1") < MaxIsolationTransitions
        /\ DecideStart(DecideRequest(d, "s1", 10, 700, 50, "VIDEO", "list"))

IsolationReply ==
    \E reply \in {ErrorReply, DictReply(FullDecision("AUDIO", "WAIT_5S", 85))} :
        OracleReturns(reply)

IsolationPanic ==
    \E d \in Devices, s \in Sessions, bw \in {200, 1200} :
        /\ handle_panic_signal(PanicRequest(d, s, 10, "VIDEO", bw, 50))
        /\ Recorded(s)' <= MaxIsolationTransitions

IsolationStatus ==
    \E s \in Sessions : get_session_status(s)

IsolationClear ==
    \E s \in Sessions : clear_session(s)

NextIsolation ==
    IsolationDecide \/ IsolationReply \/ DecideFinish \/ IsolationPanic
        \/ IsolationStatus \/ IsolationClear

SpecIsolation == InitOrchestrator /\ [][NextIsolation]_vars

-----------------------------------------------------------------------------
(* State runs: one session decides and panics at two positions while the   *)
(* clock advances; the client reports VIDEO or AUDIO as its modality,       *)
(* whatever the session's state says, and the session records at most       *)
(* MaxStateTransitions transitions.                                         *)

StateReplies ==
    {ErrorReply, DictReply(FullDecision("SLIDES", "IMMEDIATE", 85)),
     DictReply(FullDecision("AUDIO", "WAIT_5S", 85))}

StateDecide ==
    \E pos \in Positions, cur \in {"VIDEO", "AUDIO"} :
        /\ Recorded("s1") < MaxStateTransitions
        /\ DecideStart(DecideRequest("d1", "s1", pos, 700, 50, cur, "list"))

StateReply ==
    \E reply \in StateReplies : OracleReturns(reply)

StatePanic ==
    \E pos \in Positions, cur \in {"VIDEO", "AUDIO"}, bw \in {700, 1200} :
        /\ handle_panic_signal(PanicRequest("d1", "s1", pos, cur, bw, 50))
        /\ Recorded("s1")' <= MaxStateTransitions

NextState ==
    StateDecide \/ StateReply \/ DecideFinish \/ StatePanic \/ Status \/ Clear \/ Tick

SpecState == InitOrchestrator /\ [][NextState]_vars

-----------------------------------------------------------------------------
(* Panic runs: one session panics with every current modality, bandwidths  *)
(* on every side of the thresholds and a buffer below and above a second,  *)
(* between decides that the oracle answers or fails, with and without a    *)
(* boto3 client, with and without stored state.                            *)

PanicAny ==
    \E cur \in Modalities, bw \in {200, 700, 1200}, level \in {5, 50} :
        /\ handle_panic_signal(PanicRequest("d1", "s1", 10, cur, bw, level))
        /\ Recorded("s1")' <= MaxPanicTransitions

PanicDecide ==
    /\ Recorded("s1") < MaxPanicTransitions
    /\ DecideStart(DecideRequest("d1", "s1", 10, 700, 50, "VIDEO", "list"))

NextPanic == PanicAny \/ PanicDecide \/ StateReply \/ DecideFinish \/ Clear

SpecPanic == InitOrchestrator /\ [][NextPanic]_vars

-----------------------------------------------------------------------------
(* Concurrent runs: one session whose decide may be suspended at the       *)
(* oracle call while panics, status reads and clears run, and may be       *)
(* cancelled there; the session records at most MaxConcurrentTransitions   *)
(* transitions.                                                            *)

ConcurrentDecide ==
    \E pos \in Positions, cur \in {"VIDEO", "AUDIO"} :
        /\ Recorded("s1") < MaxConcurrentTransitions
        /\ decide_suspend(DecideRequest("d1", "s1", pos, 700, 50, cur, "list"))

ConcurrentResume ==
    \E reply \in StateReplies :
        /\ decide_resume(reply)
        /\ Recorded("s1")' <= MaxConcurrentTransitions

ConcurrentCancel == decide_cancel

ConcurrentPanic ==
    \E pos \in Positions, cur \in {"VIDEO", "AUDIO"}, bw \in {700, 1200} :
        /\ handle_panic_signal(PanicRequest("d1", "s1", pos, cur, bw, 50))
        /\ Recorded("s1")' <= MaxConcurrentTransitions

NextConcurrent ==
    ConcurrentDecide \/ ConcurrentResume \/ ConcurrentCancel \/ ConcurrentPanic
        \/ Status \/ Clear

InitConcurrent == InitOrchestrator /\ client = "boto3"

SpecConcurrent == InitConcurrent /\ [][NextConcurrent]_vars

\* The handler goes on when the oracle call has returned; nothing makes the
\* oracle return.
FairSpec == Spec /\ WF_vars(DecideFinish)

-----------------------------------------------------------------------------
(* Decision runs: every request is served for a session without state (the *)
(* first decision after construction or after a clear), with bandwidths on *)
(* and around both thresholds and every kind of oracle outcome.            *)

Bandwidths == {200, 500, 700, 1000, 1200}
BufferLevels == {5, 10, 50}

\* The JSON objects the oracle answers with: complete ones, ones with a value
\* the enums or the response model reject, ones with fields left out.
OracleDecisions ==
    { FullDecision(t, "WAIT_5S", 85) : t \in Modalities }
    \cup
    { FullDecision("SLIDES", "IMMEDIATE", 85),
      FullDecision("AUDIO", "LATER", 85),
      FullDecision("AUDIO", "IMMEDIATE", 150),
      FullDecision("TEXT_SUMMARY", "IMMEDIATE", -5),
      [transition_timing |-> "WAIT_2S", reasoning |-> "r",
       fallback_strategy |-> "f", decision_confidence |-> 85],
      [target_modality |-> "TEXT_SUMMARY", transition_timing |-> "IMMEDIATE"],
      [reasoning |-> "r"] }

OracleReplies ==
    {ErrorReply, InvalidJsonReply, NonDictReply} \cup {DictReply(d) : d \in OracleDecisions}

FirstDecide ==
    \E pos \in Positions, bw \in Bandwidths, vd \in {50, 80}, cur \in Modalities,
       kc \in {"list", "none"} :
        /\ session_states = EmptyDict
        /\ DecideStart(DecideRequest("d1", "s1", pos, bw, vd, cur, kc))

AnyOracleReply ==
    \E reply \in OracleReplies : OracleReturns(reply)

FirstPanic ==
    \E pos \in Positions, cur \in Modalities, bw \in Bandwidths, level \in BufferLevels :
        /\ session_states = EmptyDict
        /\ handle_panic_signal(PanicRequest("d1", "s1", pos, cur, bw, level))

NextDecision == FirstDecide \/ AnyOracleReply \/ DecideFinish \/ FirstPanic \/ Clear

SpecDecision == InitOrchestrator /\ [][NextDecision]_vars

-----------------------------------------------------------------------------
(* Telemetry windows for the prediction runs *)

\* n points whose signal, bandwidth and latency start at p.sig, p.bw, p.lat
\* and change by p.dsig, p.dbw, p.dlat per sample, kept in the field ranges.
Ramp(d, s, n, p) ==
    [i \in 1..n |->
        Point(d, s, i, Max(0, Min(100, p.sig + p.dsig * (i - 1))),
              Max(0, p.lat + p.dlat * (i - 1)),
              Max(0, p.bw + p.dbw * (i - 1)), 45)]

Profile(sig, dsig, bw, dbw, lat, dlat) ==
    [sig |-> sig, dsig |-> dsig, bw |-> bw, dbw |-> dbw, lat |-> lat, dlat |-> dlat]

\* Signal, bandwidth and latency all deteriorating, and bad at the end.
Deteriorating == Profile(90, -9, 3000, -300, 50, 60)
\* A good, steady connection.
Steady == Profile(90, 0, 3000, 0, 50, 0)

\* With no model loaded there is no model call and no outcome of it.
OutcomesOf(outcomes) == IF model = "none" THEN {None} ELSE outcomes

ModelOutcomes == {ModelRaises} \cup {ModelYields(p) : p \in {50, 75, 92}}

-----------------------------------------------------------------------------
(* Predictor runs: the predictor is called on windows of many shapes, with *)
(* the model absent or loaded.                                             *)

WindowLengths == {0, 5, sequence_length - 1, sequence_length, MaxWindow}

\* <<start, change per sample>>; the last of each has exactly the slope of
\* the heuristic's threshold.
SignalProfiles == {<<90, -9>>, <<90, 0>>, <<90, -6>>, <<25, -1>>, <<60, -5>>}
BandwidthProfiles == {<<3000, -300>>, <<400, 0>>, <<1500, -100>>}
LatencyProfiles == {<<50, 60>>, <<50, 0>>, <<600, 0>>, <<100, 50>>}

\* The ten points test_lstm_api.py sends (sample i = 0..9, one per second).
ScenarioATest ==
    [i \in 1..10 |->
        Point("d1", "s1", i, Max(10, 90 - 9 * (i - 1)), 50 + 50 * (i - 1),
              Max(200, 3000 - 280 * (i - 1)), 45)]

\* Ten points, one per second: the signal falls linearly from 0.9 to 0.1 and
\* the bandwidth from 3000 to 200 Kbps (to the hundredth and the Kbps), the
\* latency follows lt.
ScenarioALinear(lt) ==
    [i \in 1..10 |->
        Point("d1", "s1", i, 90 - (80 * (i - 1)) \div 9, Max(0, lt[1] + lt[2] * (i - 1)),
              3000 - (2800 * (i - 1)) \div 9, 45)]

ScenarioAWindows ==
    {ScenarioATest} \cup {ScenarioALinear(lt) : lt \in LatencyProfiles}

PredictorWindows ==
    {Ramp("d1", "s1", n, Profile(sg[1], sg[2], bw[1], bw[2], lt[1], lt[2])) :
        n \in WindowLengths, sg \in SignalProfiles,
        bw \in BandwidthProfiles, lt \in LatencyProfiles}
    \cup ScenarioAWindows

PredictorCall ==
    \E window \in PredictorWindows, outcome \in OutcomesOf(ModelOutcomes) :
        predictor_predict_signal_drop(window, "d1", "s1", outcome)

LoadModel ==
    \E ok \in BOOLEAN : load_model(ok)

NextPredictor == PredictorCall \/ LoadModel

InitPredictor == Init /\ client = "none"

SpecPredictor == InitPredictor /\ [][NextPredictor]_vars

-----------------------------------------------------------------------------
(* Sentry runs: the client of session s1 feeds a deteriorating connection  *)
(* while predictions are asked for, cached, read back and cleared, and the *)
(* clock advances.                                                         *)

FedLength(s) == Len(DictGet(telemetry_buffer, Key("d1", s), <<>>))

\* The next points the client of session s sends.
NextPoints(s, n) ==
    LET whole == Ramp("d1", s, FedLength(s) + n, Deteriorating)
    IN  Suffix(whole, n)

RequestWindows(s) ==
    {Ramp("d1", s, n, Deteriorating) : n \in {3, sequence_length - 1, sequence_length}}
    \cup {Ramp("d1", s, sequence_length, Steady)}

\* Predictions a caller may put into the cache: made now or earlier.
PutPredictions(s) ==
    {Prediction("d1", s, t, 80, 3000, 400, "lstm_v1", "lstm") : t \in 0..now}

\* The model raises, sees no drop, or sees one.
SentryOutcomes == {ModelRaises, ModelYields(50), ModelYields(92)}

SentryIngest ==
    /\ FedLength("s1") < MaxWindow
    /\ ingest_telemetry(NextPoints("s1", 1)[1])

SentryIngestBatch ==
    /\ FedLength("s1") + MIN_POINTS_FOR_PREDICTION <= MaxWindow
    /\ ingest_telemetry_batch(NextPoints("s1", MIN_POINTS_FOR_PREDICTION))

SentryPredict ==
    \E outcome \in OutcomesOf(SentryOutcomes) :
        \E recent_telemetry \in {None} \cup {Given(w) : w \in RequestWindows("s1")} :
            predict_signal_drop("d1", "s1", recent_telemetry, outcome)

SentryPredictorCall ==
    \E window \in RequestWindows("s1"), outcome \in OutcomesOf(SentryOutcomes) :
        predictor_predict_signal_drop(window, "d1", "s1", outcome)

SentryCacheGet == get_cached_prediction("d1", "s1")

SentryCachePut ==
    \E prediction \in PutPredictions("s1") :
        cache_prediction("d1", "s1", prediction)

SentryClear == clear_session_data("d1", "s1")

NextSentry ==
    \/ SentryIngest \/ SentryIngestBatch \/ SentryPredict \/ SentryPredictorCall
    \/ SentryCacheGet \/ SentryCachePut \/ SentryClear \/ Tick

InitSentry == Init /\ client = "none"

SpecSentry == InitSentry /\ [][NextSentry]_vars

-----------------------------------------------------------------------------
(* C1 *)

\* C1: after any sequence of ingest, batch ingest and clear, every session's
\* window holds at most max_buffer_size (100) points, and they are exactly the
\* last min(n, 100) points ingested for the session, in ingestion order.
C1_BufferBoundedFifo ==
    /\ DOMAIN telemetry_buffer = DOMAIN ingested
    /\ \A key \in DOMAIN telemetry_buffer :
          /\ Len(telemetry_buffer[key]) <= max_buffer_size
          /\ telemetry_buffer[key] =
                Suffix(ingested[key], Min(Len(ingested[key]), max_buffer_size))

\* A session has ingested more than the capacity and its two oldest points
\* are gone, while another session still holds its own points.
C1_Witness ==
    /\ Key("d1", "s1") \in DOMAIN telemetry_buffer
    /\ Key("d1", "s2") \in DOMAIN telemetry_buffer
    /\ Len(ingested[Key("d1", "s1")]) = max_buffer_size + 2
    /\ Len(telemetry_buffer[Key("d1", "s1")]) = max_buffer_size
    /\ telemetry_buffer[Key("d1", "s1")][1].timestamp = 2
    /\ sentry_ret.op = "ingest_batch"

-----------------------------------------------------------------------------
(* C2 *)

\* C2: whatever the interleaving of cache put, cache get, predict, clear and
\* clock advance, a prediction returned by the cache get, or by predict on a
\* cache hit, is never older than cache_ttl_seconds (2 s) at the time of the
\* call.
C2_CacheNeverReturnsExpired ==
    /\ (sentry_ret.op = "cache_get" /\ sentry_ret.prediction # None)
           => sentry_ret.at - sentry_ret.prediction.timestamp <= cache_ttl_seconds
    /\ (sentry_ret.op = "predict" /\ sentry_ret.cache_hit)
           => sentry_ret.at - sentry_ret.response.prediction.timestamp
                  <= cache_ttl_seconds

\* predict answered from the cache with a prediction made a second earlier,
\* and the clock has since gone past the TTL of that prediction.
C2_Witness ==
    /\ sentry_ret.op = "predict"
    /\ sentry_ret.cache_hit
    /\ sentry_ret.at - sentry_ret.response.prediction.timestamp = 1
    /\ now - sentry_ret.response.prediction.timestamp > cache_ttl_seconds

-----------------------------------------------------------------------------
(* C3 *)

\* C3: in every reachable orchestrator state, every session with state has
\* transition_count = successful_transitions + failed_transitions.
C3_CountIsSuccessPlusFailure ==
    \A s \in DOMAIN session_states :
        session_states[s].transition_count =
            session_states[s].successful_transitions
            + session_states[s].failed_transitions

\* A decision has just recorded the session's second transition.
C3_Witness ==
    /\ orch_ret.op = "decide"
    /\ "s1" \in DOMAIN session_states
    /\ session_states["s1"].transition_count = 2
    /\ session_states["s1"].successful_transitions = 2
    /\ Len(session_states["s1"].transition_history) = 2

-----------------------------------------------------------------------------
(* C4 *)

\* C4: handlePanic returns TEXT_SUMMARY / IMMEDIATE / 0.95 if bandwidth < 500
\* or buffer level < 1.0 s; otherwise AUDIO / IMMEDIATE / 0.90 if bandwidth <
\* 1000; otherwise the request's current modality / WAIT_2S / 0.80.
C4_PanicRule ==
    orch_ret.op = "panic" =>
        LET request == orch_ret.request
            response == orch_ret.response
            Is(target, timing, confidence) ==
                /\ response.target_modality = target
                /\ response.transition_timing = timing
                /\ response.decision_confidence = confidence
        IN  IF request.current_bandwidth_kbps < 500 \/ request.buffer_level < 10
            THEN Is("TEXT_SUMMARY", "IMMEDIATE", 95)
            ELSE IF request.current_bandwidth_kbps < 1000
            THEN Is("AUDIO", "IMMEDIATE", 90)
            ELSE Is(request.current_modality, "WAIT_2S", 80)

\* Scenario C: a panic with bandwidth 700 and 5.0 s of buffer got AUDIO.
C4_Witness ==
    /\ orch_ret.op = "panic"
    /\ orch_ret.request.current_bandwidth_kbps = 700
    /\ orch_ret.request.buffer_level = 50
    /\ orch_ret.request.current_modality = "VIDEO"
    /\ orch_ret.response.target_modality = "AUDIO"
    /\ orch_ret.response.decision_confidence = 90

-----------------------------------------------------------------------------
(* C5 *)

\* C5: when the oracle call fails (the call raises or times out, or its text
\* is no JSON), decide returns the bandwidth-threshold fallback: VIDEO from
\* 1000 Kbps, AUDIO from 500, TEXT_SUMMARY below, timing IMMEDIATE,
\* confidence 0.6, whatever the other request fields are.
C5_FallbackOnOracleFailure ==
    (/\ orch_ret.op = "decide"
     /\ orch_ret.reply \in {ErrorReply, InvalidJsonReply}) =>
        /\ orch_ret.response.target_modality =
             (IF orch_ret.request.available_bandwidth_kbps >= 1000 THEN "VIDEO"
              ELSE IF orch_ret.request.available_bandwidth_kbps >= 500 THEN "AUDIO"
              ELSE "TEXT_SUMMARY")
        /\ orch_ret.response.transition_timing = "IMMEDIATE"
        /\ orch_ret.response.decision_confidence = 60

-----------------------------------------------------------------------------
(* C6 *)

\* C6: every decide call leaves the session with a state whose current
\* modality is the returned target and whose position is the request's,
\* whatever the oracle's outcome and whichever path produced the decision.
C6_DecideAlwaysUpdatesState ==
    orch_ret.op = "decide" =>
        /\ orch_ret.request.session_id \in DOMAIN session_states
        /\ session_states[orch_ret.request.session_id].current_modality =
             orch_ret.response.target_modality
        /\ session_states[orch_ret.request.session_id].content_position =
             orch_ret.request.content_position

-----------------------------------------------------------------------------
(* C7 *)

\* C7: decide never raises to its caller: for every request and every oracle
\* outcome it returns a decision whose target is VIDEO, AUDIO or TEXT_SUMMARY.
C7_DecideNeverRaises ==
    orch_ret.op = "decide" =>
        /\ ~orch_ret.raised
        /\ orch_ret.response.target_modality \in Modalities

\* Each raising outcome has been absorbed: the oracle answered with JSON that
\* is no object, and decide returned the safe fallback decision.
C7_Witness ==
    /\ orch_ret.op = "decide"
    /\ orch_ret.reply = NonDictReply
    /\ orch_ret.path = "except"
    /\ ~orch_ret.raised
    /\ orch_ret.response.model_used = "rule-based-fallback"

-----------------------------------------------------------------------------
(* C8 *)

\* C8: every decide call that reaches the oracle call eventually returns,
\* also when the oracle never replies.
C8_DecideEventuallyReturns == (pc = "calling") ~> (pc = "idle")

-----------------------------------------------------------------------------
(* C9 *)

\* C9: a call of the predictor on a window of fewer than sequence_length (10)
\* points returns no prediction, with the model loaded or not; predict_signal_drop
\* computing on such a window returns no prediction and no error and writes
\* nothing to the prediction cache.
C9_ShortWindowNoPrediction ==
    [][ /\ (sentry_ret'.op = "predictor" /\ Len(sentry_ret'.window) < sequence_length)
            => sentry_ret'.prediction = None
        /\ (/\ sentry_ret'.op = "predict"
            /\ ~sentry_ret'.cache_hit
            /\ Len(sentry_ret'.window) < sequence_length)
            => /\ sentry_ret'.response.prediction = None
               /\ sentry_ret'.response.recommended_action # "ERROR"
               /\ \A k \in DOMAIN prediction_cache' :
                      /\ k \in DOMAIN prediction_cache
                      /\ prediction_cache'[k] = prediction_cache[k] ]_vars

\* predict_signal_drop computed on nine deteriorating points with a loaded
\* model that reports a drop, and returned no prediction.
C9_Witness ==
    /\ sentry_ret.op = "predict"
    /\ ~sentry_ret.cache_hit
    /\ Len(sentry_ret.window) = sequence_length - 1
    /\ sentry_ret.model = "loaded"
    /\ sentry_ret.outcome = ModelYields(92)
    /\ sentry_ret.response.prediction = None
    /\ sentry_ret.response.recommended_action = "CONTINUE_MONITORING"

-----------------------------------------------------------------------------
(* C10 *)

\* C10: when no model is loaded, or the loaded model raises during the
\* prediction, the predictor returns exactly what the heuristic returns for
\* the same window.
C10_ModelErrorFallsBackToHeuristic ==
    (/\ sentry_ret.op = "predictor"
     /\ (sentry_ret.model = "none" \/ sentry_ret.outcome.raised))
        => sentry_ret.prediction =
               PredictorResult("none", sentry_ret.window, "d1", "s1",
                               sentry_ret.outcome, sentry_ret.at)

-----------------------------------------------------------------------------
(* C11 *)

\* The sum of (2i - (n - 1)) * ys[i] over the 0-based positions i of the n
\* samples: the least-squares slope of the samples is 6 * CenteredSum / (n (n^2 - 1)).
RECURSIVE CenteredSum(_, _)
CenteredSum(ys, i) ==
    IF i > Len(ys) THEN 0
    ELSE (2 * (i - 1) - (Len(ys) - 1)) * ys[i] + CenteredSum(ys, i + 1)

\* The confidence the rule of the heuristic gives a window (hundredths).
C11_Confidence(window) ==
    LET n == Len(window)
        scale == n * (n * n - 1)
        SlopeBelow(ys, k) == 6 * CenteredSum(ys, 1) < k * scale
        SlopeAbove(ys, k) == 6 * CenteredSum(ys, 1) > k * scale
        flags == {f \in {"signal", "bandwidth", "latency"} :
                     \/ f = "signal"
                        /\ SlopeBelow([i \in 1..n |-> window[i].signal_strength], -5)
                     \/ f = "bandwidth"
                        /\ SlopeBelow([i \in 1..n |-> window[i].bandwidth_kbps], -100)
                     \/ f = "latency"
                        /\ SlopeAbove([i \in 1..n |-> window[i].latency_ms], 50)}
        base == IF Cardinality(flags) >= 2 THEN 60 ELSE 0
        sum == base + (IF window[n].signal_strength < 30 THEN 20 ELSE 0)
                    + (IF window[n].bandwidth_kbps < 500 THEN 15 ELSE 0)
                    + (IF window[n].latency_ms > 500 THEN 15 ELSE 0)
    IN  IF sum > 100 THEN 100 ELSE sum

\* C11: on a window of sequence_length points the heuristic emits a prediction
\* if and only if min(1, base + 0.2 [signal < 0.3] + 0.15 [bandwidth < 500]
\* + 0.15 [latency > 500]) >= 0.75, base being 0.6 when at least two of the
\* three slopes are past their thresholds and 0 otherwise; the prediction
\* carries exactly that confidence.
C11_HeuristicConfidenceRule ==
    (/\ sentry_ret.op = "predictor"
     /\ sentry_ret.model = "none"
     /\ Len(sentry_ret.window) = sequence_length)
        => /\ (sentry_ret.prediction # None)
                  <=> (C11_Confidence(sentry_ret.window) >= 75)
           /\ sentry_ret.prediction # None
                  => /\ sentry_ret.prediction.confidence
                            = C11_Confidence(sentry_ret.window)
                     /\ sentry_ret.prediction.predictor_type = "heuristic"

\* The heuristic emitted a prediction exactly on the threshold: two slopes
\* past their thresholds and only the bandwidth low at the end.
C11_Witness ==
    /\ sentry_ret.op = "predictor"
    /\ sentry_ret.model = "none"
    /\ Len(sentry_ret.window) = sequence_length
    /\ sentry_ret.prediction # None
    /\ sentry_ret.prediction.confidence = 75
    /\ sentry_ret.window[sequence_length].signal_strength >= 30

-----------------------------------------------------------------------------
(* C12 *)

\* C12 (Scenario A): with no model loaded, the predictor called on ten points
\* sampled a second apart whose signal falls from 0.9 to 0.1 and whose
\* bandwidth falls from 3000 towards 200 Kbps returns a prediction with
\* confidence >= 0.75 and predictor_type "heuristic".
C12_ScenarioA ==
    (/\ sentry_ret.op = "predictor"
     /\ sentry_ret.model = "none"
     /\ sentry_ret.window \in ScenarioAWindows)
        => /\ sentry_ret.prediction # None
           /\ sentry_ret.prediction.confidence >= 75
           /\ sentry_ret.prediction.predictor_type = "heuristic"

\* The predictor answered the window of test_lstm_api.py without a model.
C12_Witness ==
    /\ sentry_ret.op = "predictor"
    /\ sentry_ret.model = "none"
    /\ sentry_ret.window = ScenarioATest
    /\ sentry_ret.prediction # None
    /\ sentry_ret.prediction.confidence = 95

-----------------------------------------------------------------------------
(* C13 *)

\* C13: for every session and every count >= 0, count = 0 included, the call
\* for the recent points returns the last min(count, stored) points ingested
\* for the session, most recent last; for a session without buffer it
\* returns the empty list and creates no buffer entry.
C13_RecentReturnsLastCount ==
    sentry_ret.op = "recent" =>
        LET stored == DictGet(ingested, sentry_ret.key, <<>>)
        IN  /\ sentry_ret.result = Suffix(stored, Min(sentry_ret.count, Len(stored)))
            /\ sentry_ret.key \notin DOMAIN ingested
                   => /\ sentry_ret.result = <<>>
                      /\ sentry_ret.key \notin DOMAIN telemetry_buffer

-----------------------------------------------------------------------------
(* C14 *)

\* The transition_history entries of the transitions decided for a session.
HistoryOf(log) ==
    [i \in 1..Len(log) |->
        [from |-> log[i].from, to |-> log[i].to, timestamp |-> log[i].timestamp,
         position |-> log[i].position, success |-> TRUE]]

\* C14: a clear puts the session back in NoState: status returns none until
\* a decision updates the state again, and the state that decision creates
\* counts and lists only the transitions decided since the clear.
C14_ClearThenFresh ==
    /\ [](/\ orch_ret.op = "clear" => orch_ret.session_id \notin DOMAIN session_states
          /\ (orch_ret.op = "status" /\ orch_ret.session_id \notin DOMAIN session_states)
                 => orch_ret.response = None
          /\ \A s \in DOMAIN session_states :
                 /\ s \in DOMAIN decided
                 /\ session_states[s].transition_count = Len(decided[s])
                 /\ session_states[s].successful_transitions
                        + session_states[s].failed_transitions = Len(decided[s])
                 /\ Len(decided[s]) <= HISTORY_LIMIT
                        => session_states[s].transition_history = HistoryOf(decided[s]))
    /\ [][\A s \in Sessions :
             (s \notin DOMAIN session_states /\ s \in DOMAIN session_states')
                 => /\ orch_ret'.op \in {"decide", "panic"}
                    /\ orch_ret'.request.session_id = s
                    /\ session_states'[s].transition_count
                           = IF orch_ret'.request.current_modality
                                    # orch_ret'.response.target_modality
                             THEN 1 ELSE 0]_vars

\* The session was cleared, a later decision changed the modality, and
\* status shows a state with that one transition.
C14_Witness ==
    /\ "s1" \in cleared
    /\ orch_ret.op = "status"
    /\ orch_ret.response # None
    /\ orch_ret.response.transition_count = 1
    /\ Len(orch_ret.response.transition_history) = 1

-----------------------------------------------------------------------------
(* C15 *)

\* C15: a status call changes no orchestrator state and returns the state of
\* the session as it is; a status call that follows a status call for the
\* same session returns the same state.
C15_StatusReadOnly ==
    [][orch_ret'.op = "status"
          => /\ session_states' = session_states
             /\ orch_ret'.response
                    = DictGet(session_states, orch_ret'.session_id, None)
             /\ (orch_ret.op = "status" /\ orch_ret.session_id = orch_ret'.session_id)
                    => orch_ret'.response = orch_ret.response]_vars

\* status returned the state of a session that has decided transitions and
\* was never cleared.
C15_Witness ==
    /\ orch_ret.op = "status"
    /\ orch_ret.response # None
    /\ orch_ret.response = session_states["s1"]
    /\ orch_ret.response.transition_count >= 1
    /\ "s1" \notin cleared

-----------------------------------------------------------------------------
(* C16 *)

\* C16: status and clear for a session without state both tell the caller
\* that the session was not found, without raising; the answer to a clear of
\* an unknown session differs from the answer to a clear of an existing one.
C16_NotFoundSignalled ==
    /\ (orch_ret.op = "status" /\ orch_ret.session_id \notin DOMAIN session_states)
           => /\ ~orch_ret.raised
              /\ orch_ret.response = None
              /\ orch_ret.answer.http = 404
    /\ (orch_ret.op = "clear" /\ ~orch_ret.existed)
           => /\ ~orch_ret.raised
              /\ orch_ret.answer.http = 404
              /\ orch_ret.answer # ClearAnswer(TRUE)

-----------------------------------------------------------------------------
(* C17 *)

\* The buffers and the number of successes after ingesting the points of
\* batch one by one, in order, with single calls of ingest_telemetry.
RECURSIVE C17_OneByOne(_, _, _)
C17_OneByOne(buf, count, batch) ==
    IF batch = <<>> THEN [buf |-> buf, count |-> count]
    ELSE C17_OneByOne(BufferAfterIngest(buf, Head(batch)),
                      IF IngestResult(Head(batch)) THEN count + 1 ELSE count,
                      Tail(batch))

\* C17: a batch ingest leaves the buffers that the single ingests of its
\* points, in order, leave; it returns the number of points whose single
\* ingest succeeds; and every sound point of the batch is stored, in batch
\* order, whatever failed before it.
C17_BatchIsSequential ==
    [][sentry_ret'.op = "ingest_batch" =>
        LET batch == sentry_ret'.batch
            one == C17_OneByOne(telemetry_buffer, 0, batch)
        IN  /\ telemetry_buffer' = one.buf
            /\ sentry_ret'.result = one.count
            /\ \A i \in 1..Len(batch) :
                   IngestResult(batch[i]) =>
                      \E j \in 1..Len(telemetry_buffer'[KeyOf(batch[i])]) :
                          telemetry_buffer'[KeyOf(batch[i])][j] = batch[i]
    ]_vars

\* A batch of three whose first object failed before the append and whose
\* second failed after it: one success is returned and the third is stored.
C17_Witness ==
    /\ sentry_ret.op = "ingest_batch"
    /\ Len(sentry_ret.batch) = 3
    /\ RaisesBeforeAppend(sentry_ret.batch[1])
    /\ RaisesAfterAppend(sentry_ret.batch[2])
    /\ IngestResult(sentry_ret.batch[3])
    /\ sentry_ret.result = 1
    /\ \E key \in DOMAIN telemetry_buffer :
           /\ Len(telemetry_buffer[key]) >= 1
           /\ telemetry_buffer[key][Len(telemetry_buffer[key])] = sentry_ret.batch[3]

-----------------------------------------------------------------------------
(* C18 *)

\* 125 times the sum of the squared deviations from the mean of the last
\* five signal strengths (hundredths) of stored: sum((5 x - sum(x))^2).
C18_Spread(stored) ==
    LET n == Len(stored)
        x(i) == stored[n - 5 + i].signal_strength
        total == x(1) + x(2) + x(3) + x(4) + x(5)
        dev(i) == (5 * x(i) - total) * (5 * x(i) - total)
    IN  dev(1) + dev(2) + dev(3) + dev(4) + dev(5)

-----------------------------------------------------------------------------
(* C19 *)

\* C19: a session's transition history has length min(transitions recorded
\* since the state was created, 10), never more than 10, and its entries are
\* the most recent recorded transitions in the order they were recorded.
C19_HistoryIsLastTen ==
    \A s \in DOMAIN session_states :
        /\ s \in DOMAIN decided
        /\ LET history == session_states[s].transition_history
               recorded == HistoryOf(decided[s])
               kept == IF Len(recorded) < 10 THEN Len(recorded) ELSE 10
           IN  /\ Len(history) = kept
               /\ Len(history) <= 10
               /\ \A i \in 1..kept : history[i] = recorded[Len(recorded) - kept + i]

\* Eleven transitions were recorded: the history holds ten, the second
\* first and the eleventh last, and the first, which differs, is gone.
C19_Witness ==
    /\ "s1" \in DOMAIN session_states
    /\ Len(decided["s1"]) = 11
    /\ Len(session_states["s1"].transition_history) = 10
    /\ session_states["s1"].transition_history[1] = HistoryOf(decided["s1"])[2]
    /\ HistoryOf(decided["s1"])[1] # HistoryOf(decided["s1"])[2]
    /\ session_states["s1"].transition_history[10] = HistoryOf(decided["s1"])[11]

-----------------------------------------------------------------------------
(* C20 *)

\* C20: decision state is isolated per (device_id, session_id): the state
\* observed under a session id belongs to the key it was created for, so it
\* counts and lists only transitions decided for that key's device, never
\* one decided for another device that uses the same session id.
C20_IsolatedPerSessionKey ==
    \A s \in DOMAIN session_states :
        \A i \in 1..Len(DictGet(decided, s, <<>>)) :
            decided[s][i].device_id = session_states[s].device_id

-----------------------------------------------------------------------------
(* C21 *)

\* C21: windows and cache entries are isolated per (device_id, session_id),
\* whatever characters the identifiers hold: a window holds the points of
\* one pair only, and a cache read for a pair returns none or a prediction
\* that was cached for that pair.
C21_IsolatedPerPair ==
    /\ \A key \in DOMAIN telemetry_buffer :
           \A i, j \in 1..Len(telemetry_buffer[key]) :
               /\ telemetry_buffer[key][i].device_id = telemetry_buffer[key][j].device_id
               /\ telemetry_buffer[key][i].session_id = telemetry_buffer[key][j].session_id
    /\ (sentry_ret.op = "cache_get" /\ sentry_ret.prediction # None)
           => /\ sentry_ret.prediction.device_id = sentry_ret.device_id
              /\ sentry_ret.prediction.session_id = sentry_ret.session_id

-----------------------------------------------------------------------------
(* C22 *)

\* C22: when the oracle's JSON object lacks a required field (target
\* modality, timing, reasoning, fallback strategy, confidence), decide
\* returns the full bandwidth-threshold fallback decision: VIDEO from 1000
\* Kbps, AUDIO from 500, TEXT_SUMMARY below, IMMEDIATE, confidence 0.6, made
\* by the rule-based fallback; no default stands in for the missing field.
C22_MissingFieldIsParseFailure ==
    (/\ orch_ret.op = "decide"
     /\ orch_ret.reply.kind = "content"
     /\ orch_ret.reply.json = "dict"
     /\ ~({"target_modality", "transition_timing", "reasoning", "fallback_strategy",
           "decision_confidence"} \subseteq DOMAIN orch_ret.reply.decision)) =>
        /\ orch_ret.response.target_modality =
             (IF orch_ret.request.available_bandwidth_kbps >= 1000 THEN "VIDEO"
              ELSE IF orch_ret.request.available_bandwidth_kbps >= 500 THEN "AUDIO"
              ELSE "TEXT_SUMMARY")
        /\ orch_ret.response.transition_timing = "IMMEDIATE"
        /\ orch_ret.response.decision_confidence = 60
        /\ orch_ret.response.model_used = "rule-based-fallback"

-----------------------------------------------------------------------------
(* C23 *)

\* C23: every decision returned by decide or by the panic handler has a
\* confidence within [0, 1] (0..100 hundredths), and a confidence outside
\* that range supplied by the oracle leads to the bandwidth-threshold
\* fallback decision, returned without an error.
C23_ConfidenceInRange ==
    orch_ret.op \in {"decide", "panic"} =>
        /\ ~orch_ret.raised
        /\ orch_ret.response.decision_confidence >= 0
        /\ orch_ret.response.decision_confidence <= 100
        /\ (/\ orch_ret.op = "decide"
            /\ orch_ret.reply.kind = "content"
            /\ orch_ret.reply.json = "dict"
            /\ "decision_confidence" \in DOMAIN orch_ret.reply.decision
            /\ \/ orch_ret.reply.decision.decision_confidence < 0
               \/ orch_ret.reply.decision.decision_confidence > 100)
              => /\ orch_ret.path = "except"
                 /\ orch_ret.response.model_used = "rule-based-fallback"
                 /\ orch_ret.response.decision_confidence = 60

\* The oracle answered with confidence 1.5 and the caller got the fallback
\* decision with confidence 0.6.
C23_Witness ==
    /\ orch_ret.op = "decide"
    /\ orch_ret.reply = DictReply(FullDecision("AUDIO", "IMMEDIATE", 150))
    /\ orch_ret.response.decision_confidence = 60
    /\ ~orch_ret.raised

-----------------------------------------------------------------------------
(* C24 *)

\* C24: a panic call, and a decide call that updates the state, leave the
\* session with the returned target as current modality, the request's
\* position and the clock's reading as last transition timestamp, whether or
\* not the modality changed; the timestamp of a state never decreases.
C24_StateFollowsDecision ==
    [][/\ (/\ now' = now
           /\ orch_ret'.op \in {"decide", "panic"}
           /\ orch_ret'.path \in {"try", "panic"})
          => LET s == orch_ret'.request.session_id
             IN  /\ s \in DOMAIN session_states'
                 /\ session_states'[s].current_modality
                        = orch_ret'.response.target_modality
                 /\ session_states'[s].content_position
                        = orch_ret'.request.content_position
                 /\ session_states'[s].last_transition_timestamp = now'
       /\ \A s \in DOMAIN session_states \cap DOMAIN session_states' :
              session_states'[s].last_transition_timestamp
                  >= session_states[s].last_transition_timestamp
    ]_vars

\* A panic that keeps the modality the client is in has moved the position
\* and the timestamp of a state whose one transition was recorded earlier at
\* the other position.
C24_Witness ==
    /\ orch_ret.op = "panic"
    /\ orch_ret.response.target_modality = orch_ret.request.current_modality
    /\ "s1" \in DOMAIN session_states
    /\ session_states["s1"].transition_count = 1
    /\ session_states["s1"].transition_history[1].timestamp
           < session_states["s1"].last_transition_timestamp
    /\ session_states["s1"].transition_history[1].position
           # session_states["s1"].content_position
    /\ session_states["s1"].content_position = orch_ret.request.content_position
    /\ session_states["s1"].last_transition_timestamp = now

-----------------------------------------------------------------------------
(* C25 *)

\* C25: a decision whose target is the modality the request came from leaves
\* the session's transition count, success count, failure count and history
\* as they were; for a session without state it creates a state with zero
\* counters and an empty history.
C25_NoChangeNoTransition ==
    [][(/\ orch_ret'.op \in {"decide", "panic"}
        /\ orch_ret'.path \in {"try", "panic"}
        /\ orch_ret'.request.current_modality = orch_ret'.response.target_modality)
          => LET s == orch_ret'.request.session_id
                 after == session_states'[s]
             IN  IF s \in DOMAIN session_states
                 THEN /\ after.transition_count = session_states[s].transition_count
                      /\ after.successful_transitions
                             = session_states[s].successful_transitions
                      /\ after.failed_transitions = session_states[s].failed_transitions
                      /\ after.transition_history = session_states[s].transition_history
                 ELSE /\ after.transition_count = 0
                      /\ after.successful_transitions = 0
                      /\ after.failed_transitions = 0
                      /\ after.transition_history = <<>>
    ]_vars

\* The oracle chose the modality the request came from, for a session that
\* had recorded one transition, at another position: the count is still one.
C25_Witness ==
    /\ orch_ret.op = "decide"
    /\ orch_ret.path = "try"
    /\ orch_ret.reply.kind = "content"
    /\ orch_ret.request.current_modality = orch_ret.response.target_modality
    /\ "s1" \in DOMAIN session_states
    /\ session_states["s1"].transition_count = 1
    /\ Len(session_states["s1"].transition_history) = 1
    /\ session_states["s1"].transition_history[1].position
           # orch_ret.request.content_position

-----------------------------------------------------------------------------
(* C26 *)

\* C26: for a session that has state, a decision increments the transition
\* count and appends a history entry exactly when its target differs from
\* the current modality stored for the session just before the decision,
\* whatever current modality the request reports.
C26_CountsActualChanges ==
    [][(/\ orch_ret'.op \in {"decide", "panic"}
        /\ orch_ret'.path \in {"try", "panic"}
        /\ orch_ret'.request.session_id \in DOMAIN session_states)
          => LET s == orch_ret'.request.session_id
                 counted ==
                     /\ session_states'[s].transition_count
                            = session_states[s].transition_count + 1
                     /\ session_states'[s].transition_history
                            # session_states[s].transition_history
             IN  counted <=> (orch_ret'.response.target_modality
                                  # session_states[s].current_modality)
    ]_vars

-----------------------------------------------------------------------------
(* C27 *)

\* <<target, timing, confidence>> as a function of the three request values.
C27_DecisionOf(bandwidth, buffer_level, current_modality) ==
    CASE bandwidth < 500 \/ buffer_level < 10 -> <<"TEXT_SUMMARY", "IMMEDIATE", 95>>
      [] bandwidth >= 500 /\ buffer_level >= 10 /\ bandwidth < 1000
                                              -> <<"AUDIO", "IMMEDIATE", 90>>
      [] OTHER                                -> <<current_modality, "WAIT_2S", 80>>

\* C27: the panic handler never invokes the oracle (no call is started,
\* pending or answered by it), and the target, timing and confidence it
\* returns are one fixed function of the request's bandwidth, buffer level
\* and current modality, whatever the oracle client, the session's state and
\* the operations before.
C27_PanicIsPureRule ==
    /\ [](orch_ret.op = "panic" =>
            <<orch_ret.response.target_modality, orch_ret.response.transition_timing,
              orch_ret.response.decision_confidence>>
                = C27_DecisionOf(orch_ret.request.current_bandwidth_kbps,
                                 orch_ret.request.buffer_level,
                                 orch_ret.request.current_modality))
    /\ [][orch_ret'.op = "panic" =>
            /\ pc = "idle" /\ pc' = "idle"
            /\ pending' = pending
            /\ oracle_reply' = oracle_reply
            /\ client' = client]_vars

\* With a boto3 client, after a decide that moved the session to AUDIO, a
\* panic at 1200 Kbps kept VIDEO, the modality its request reported.
C27_Witness ==
    /\ orch_ret.op = "panic"
    /\ client = "boto3"
    /\ orch_ret.request.current_bandwidth_kbps = 1200
    /\ orch_ret.request.current_modality = "VIDEO"
    /\ orch_ret.response.target_modality = "VIDEO"
    /\ "s1" \in DOMAIN decided
    /\ Len(decided["s1"]) = 1
    /\ decided["s1"][1].to = "AUDIO"

-----------------------------------------------------------------------------
(* C28 *)

\* C28: under any interleaving of decide, panic, status and clear on one
\* session, a decide being suspended or cancelled at the oracle call, the
\* session's state changes only in whole: a step that changes it is a clear
\* that removes it, or the last step of one decision, which sets modality,
\* position, timestamp, counters and history together from that decision; a
\* cancelled decide and a status call change nothing, and a status call
\* returns the state as it stands.
C28_AllOrNothing ==
    [][/\ \A s \in Sessions :
            LET before == DictGet(session_states, s, None)
                after == DictGet(session_states', s, None)
            IN  after # before =>
                  \/ /\ orch_ret'.op = "clear"
                     /\ orch_ret'.session_id = s
                     /\ after = None
                  \/ /\ orch_ret'.op \in {"decide", "panic"}
                     /\ orch_ret'.path \in {"try", "panic"}
                     /\ orch_ret'.request.session_id = s
                     /\ after # None
                     /\ LET request == orch_ret'.request
                            target == orch_ret'.response.target_modality
                            step == IF request.current_modality # target THEN 1 ELSE 0
                            fresh == before = None
                            entry == [from |-> request.current_modality, to |-> target,
                                      timestamp |-> now',
                                      position |-> request.content_position,
                                      success |-> TRUE]
                        IN  /\ after.current_modality = target
                            /\ after.content_position = request.content_position
                            /\ after.last_transition_timestamp = now'
                            /\ after.transition_count
                                 = (IF fresh THEN 0 ELSE before.transition_count) + step
                            /\ after.successful_transitions
                                 = (IF fresh THEN 0 ELSE before.successful_transitions) + step
                            /\ after.failed_transitions
                                 = (IF fresh THEN 0 ELSE before.failed_transitions)
                            /\ after.transition_history
                                 = LET old == IF fresh THEN <<>>
                                              ELSE before.transition_history
                                   IN  IF step = 1 THEN Append(old, entry) ELSE old
       /\ orch_ret'.op = "decide_cancelled" => session_states' = session_states
       /\ orch_ret'.op = "status" =>
              /\ session_states' = session_states
              /\ orch_ret'.response = DictGet(session_states, orch_ret'.session_id, None)
    ]_vars

\* While a decide is suspended at the oracle call, a status call has read
\* the state a panic left at the other position, one transition recorded.
C28_Witness ==
    /\ pending # None
    /\ orch_ret.op = "status"
    /\ orch_ret.response # None
    /\ orch_ret.response.transition_count = 1
    /\ orch_ret.response.successful_transitions = 1
    /\ Len(orch_ret.response.transition_history) = 1
    /\ orch_ret.response.content_position # pending.content_position
    /\ orch_ret.response.current_modality # pending.current_modality

-----------------------------------------------------------------------------
(* C29 *)

\* C29: a predict call made while the session's cache entry is younger than
\* cache_ttl_seconds (2 s) returns that entry and leaves the cache as it is:
\* nothing is computed, whatever the buffer holds and whatever telemetry the
\* request supplies.
C29_CacheHitAnswers ==
    [][(/\ sentry_ret'.op = "predict"
        /\ now' = now
        /\ sentry_ret'.key \in DOMAIN prediction_cache
        /\ now - prediction_cache[sentry_ret'.key].timestamp < 2)
          => /\ sentry_ret'.cache_hit
             /\ sentry_ret'.response.prediction = prediction_cache[sentry_ret'.key]
             /\ prediction_cache' = prediction_cache
    ]_vars

\* A predict call that supplied ten deteriorating points, with a loaded model
\* that sees a drop at 0.92, returned the prediction of confidence 0.8 cached
\* a second before, and the buffer has grown past five points meanwhile.
C29_Witness ==
    /\ sentry_ret.op = "predict"
    /\ sentry_ret.cache_hit
    /\ sentry_ret.model = "loaded"
    /\ sentry_ret.outcome = ModelYields(92)
    /\ Len(sentry_ret.window) = sequence_length
    /\ sentry_ret.response.prediction.confidence = 80
    /\ sentry_ret.at - sentry_ret.response.prediction.timestamp = 1
    /\ FedLength("s1") > MIN_POINTS_FOR_PREDICTION

-----------------------------------------------------------------------------
(* C30 *)

\* C30: a cache get that finds an entry of age cache_ttl_seconds (2 s) or
\* more removes that entry, and only it, in the same operation and returns
\* none; a get that finds a younger entry, or no entry, leaves the cache
\* unchanged.
C30_ExpiredEvictedOnRead ==
    [][(sentry_ret'.op = "cache_get" /\ now' = now)
          => LET key == sentry_ret'.key
             IN  IF key \in DOMAIN prediction_cache
                    /\ now - prediction_cache[key].timestamp >= 2
                 THEN /\ sentry_ret'.prediction = None
                      /\ DOMAIN prediction_cache' = DOMAIN prediction_cache \ {key}
                      /\ \A k \in DOMAIN prediction_cache' :
                             prediction_cache'[k] = prediction_cache[k]
                 ELSE prediction_cache' = prediction_cache
    ]_vars

\* A get found an entry, returned none, and the entry is gone.
C30_Witness ==
    /\ sentry_ret.op = "cache_get"
    /\ sentry_ret.found
    /\ sentry_ret.prediction = None
    /\ sentry_ret.key \notin DOMAIN prediction_cache
    /\ sentry_ret.at = now

-----------------------------------------------------------------------------
(* Heuristic runs: the predictor is called on windows of sequence_length   *)
(* points whose three series are ramps or steps, chosen so that every      *)
(* combination of indicators and severity conditions occurs and both ends  *)
(* of the time-to-drop clamp are met.                                      *)

\* sequence_length samples that start at first and change by step per sample,
\* kept within lo..hi.
Series(first, step, lo, hi) ==
    [i \in 1..sequence_length |-> Max(lo, Min(hi, first + step * (i - 1)))]

\* sequence_length samples: before for the first half, after for the rest.
StepSeries(before, after) ==
    [i \in 1..sequence_length |-> IF 2 * i <= sequence_length THEN before ELSE after]

HeuristicSignals ==
    {Series(sg[1], sg[2], 0, 100) :
        sg \in {<<90, -9>>, <<90, 0>>, <<83, -7>>, <<25, -1>>, <<60, -5>>, <<20, 0>>}}
    \cup {StepSeries(100, 55), StepSeries(40, 25)}

HeuristicBandwidths ==
    {Series(bw[1], bw[2], 0, 100000) :
        bw \in {<<3000, -300>>, <<400, 0>>, <<1500, -100>>, <<3000, 0>>, <<1400, -101>>,
                 <<3000, -200>>}}

HeuristicLatencies ==
    {Series(lt[1], lt[2], 0, 100000) :
        lt \in {<<50, 60>>, <<50, 0>>, <<600, 0>>, <<100, 50>>}}

Window(sigs, bws, lats) ==
    [i \in 1..sequence_length |-> Point("d1", "s1", i, sigs[i], lats[i], bws[i], 45)]

HeuristicWindows ==
    {Window(sigs, bws, lats) :
        sigs \in HeuristicSignals, bws \in HeuristicBandwidths, lats \in HeuristicLatencies}

HeuristicCall ==
    \E window \in HeuristicWindows, outcome \in OutcomesOf(ModelOutcomes) :
        predictor_predict_signal_drop(window, "d1", "s1", outcome)

NextHeuristic == HeuristicCall \/ LoadModel

SpecHeuristic == InitPredictor /\ [][NextHeuristic]_vars

-----------------------------------------------------------------------------
(* C31 *)

\* The least-squares slope of the samples ys is 6 * CenteredSum(ys, 1) / SlopeScale(ys).
SlopeScale(ys) == Len(ys) * (Len(ys) * Len(ys) - 1)

\* clamp(0.5, 5, |(0.2 - current) / slope|) for the signal samples ys, in ms
C31_ClampedTime(ys) ==
    LET quotient == (Abs(20 - ys[Len(ys)]) * SlopeScale(ys) * 1000)
                        \div Abs(6 * CenteredSum(ys, 1))
    IN  IF quotient < 500 THEN 500
        ELSE IF quotient > prediction_horizon * 1000 THEN prediction_horizon * 1000
        ELSE quotient

\* current + 3 * slope for the bandwidth samples ys, rounded down to the Kbps
\* and not below 0
C31_Bandwidth(ys) ==
    LET raw == (ys[Len(ys)] * SlopeScale(ys) + 18 * CenteredSum(ys, 1)) \div SlopeScale(ys)
    IN  IF raw < 0 THEN 0 ELSE raw

\* C31: every prediction the heuristic emits has a time to drop of
\* clamp(0.5, 5, |(0.2 - current signal) / signal slope|), hence within
\* [0.5, 5], when the signal slope is below -0.05 per sample and of exactly
\* 3.0 otherwise, always within the [0, 10] of the data model, and a
\* predicted bandwidth of max(0, current bandwidth + 3 * bandwidth slope),
\* which is >= 0.
C31_HeuristicTimeAndBandwidth ==
    (/\ sentry_ret.op = "predictor"
     /\ sentry_ret.prediction # None
     /\ sentry_ret.prediction.predictor_type = "heuristic")
        => LET window == sentry_ret.window
               sigs == [i \in 1..Len(window) |-> window[i].signal_strength]
               bws == [i \in 1..Len(window) |-> window[i].bandwidth_kbps]
               declining == 6 * CenteredSum(sigs, 1) < -5 * SlopeScale(sigs)
               emitted == sentry_ret.prediction
           IN  /\ declining => /\ emitted.predicted_time_ms = C31_ClampedTime(sigs)
                               /\ emitted.predicted_time_ms >= 500
                               /\ emitted.predicted_time_ms <= prediction_horizon * 1000
               /\ ~declining => emitted.predicted_time_ms = 3000
               /\ emitted.predicted_time_ms >= 0
               /\ emitted.predicted_time_ms <= 10000
               /\ emitted.predicted_bandwidth_kbps = C31_Bandwidth(bws)
               /\ emitted.predicted_bandwidth_kbps >= 0

\* The heuristic emitted a prediction for a declining signal that ends on
\* 0.2, so that the quotient is 0 and the lower clamp gives half a second,
\* with a bandwidth that falls to 300 Kbps by 300 Kbps per sample and is
\* predicted as 0.
C31_Witness ==
    /\ sentry_ret.op = "predictor"
    /\ sentry_ret.model = "none"
    /\ sentry_ret.prediction # None
    /\ sentry_ret.prediction.predictor_type = "heuristic"
    /\ sentry_ret.window[sequence_length].signal_strength = 20
    /\ sentry_ret.window[1].signal_strength = 83
    /\ sentry_ret.window[sequence_length].bandwidth_kbps = 300
    /\ sentry_ret.prediction.predicted_time_ms = 500
    /\ sentry_ret.prediction.predicted_bandwidth_kbps = 0

-----------------------------------------------------------------------------
(* Ordering runs: the points of a session arrive in any order of their     *)
(* measurement timestamps (late and repeated ones included), and the       *)
(* recent points are asked for.                                            *)

MaxOrderPoints == 3
MaxTimestamp == 3

OrderIngest ==
    \E s \in Sessions, ts \in 1..MaxTimestamp :
        /\ Sent("d1", s) < (IF s = "s1" THEN MaxOrderPoints ELSE 1)
        /\ ingest_telemetry(Sample("d1", s, ts))

OrderCall ==
    \E s \in Sessions, count \in 1..MaxOrderPoints :
        get_recent_telemetry_call("d1", s, count)

OrderClear ==
    \E s \in Sessions : clear_session_data("d1", s)

NextOrder == OrderIngest \/ OrderCall \/ OrderClear

SpecOrder == InitBuffer /\ [][NextOrder]_vars

-----------------------------------------------------------------------------
(* C32 *)

\* C32: the telemetry buffer is time-ordered: for every session and any
\* order in which its points are ingested, points with timestamps older than
\* stored ones included, the sequence the call for the recent points returns
\* is sorted by non-decreasing measurement timestamp.
C32_RecentIsTimeOrdered ==
    sentry_ret.op = "recent" =>
        \A i \in 1..Len(sentry_ret.result) : \A j \in i..Len(sentry_ret.result) :
            sentry_ret.result[i].timestamp <= sentry_ret.result[j].timestamp

-----------------------------------------------------------------------------
(* C33 *)

-----------------------------------------------------------------------------
(* C34 *)

\* C34: the recommended action predict_signal_drop returns for a prediction
\* is the same whether the prediction was just computed or is served from
\* the cache: a predict call that follows, within the TTL, the call that
\* produced the prediction returns the same prediction with the same
\* recommended action.
C34_SameActionFromCache ==
    [][(/\ sentry_ret.op = "predict"
        /\ ~sentry_ret.cache_hit
        /\ sentry_ret.response.prediction # None
        /\ sentry_ret'.op = "predict"
        /\ sentry_ret'.cache_hit
        /\ sentry_ret'.key = sentry_ret.key
        /\ sentry_ret'.response.prediction = sentry_ret.response.prediction)
            => sentry_ret'.response.recommended_action
                   = sentry_ret.response.recommended_action]_vars

-----------------------------------------------------------------------------
(* Response runs: the client of session s1 feeds a deteriorating           *)
(* connection in batches, with at most one object without metrics among    *)
(* its points,                                                            *)
(* while predictions are asked for with the buffer or with a supplied      *)
(* window, sound or not, and the clock advances.                           *)

\* An object that has the identifiers of a point and none of its metrics.
NoMetricObject(s, ts) == BatchObject("no_metric", s, ts)

HasNoMetricObject(points) ==
    \E i \in 1..Len(points) : "signal_strength" \notin DOMAIN points[i]

\* A deteriorating window of n points whose last one has no metrics.
DefectiveWindow(s, n) ==
    [i \in 1..n |-> IF i = n THEN NoMetricObject(s, n)
                    ELSE Ramp("d1", s, n, Deteriorating)[i]]

ResponseWindows(s) ==
    RequestWindows(s)
    \cup {DefectiveWindow(s, n) : n \in {3, sequence_length - 1, sequence_length}}

ResponseIngestDefective ==
    /\ FedLength("s1") < MaxWindow
    /\ ~HasNoMetricObject(DictGet(telemetry_buffer, Key("d1", "s1"), <<>>))
    /\ ingest_telemetry(NoMetricObject("s1", FedLength("s1") + 1))

ResponsePredict ==
    \E outcome \in OutcomesOf(SentryOutcomes) :
        \E recent_telemetry \in {None} \cup {Given(w) : w \in ResponseWindows("s1")} :
            predict_signal_drop("d1", "s1", recent_telemetry, outcome)

NextResponse ==
    \/ SentryIngestBatch \/ ResponseIngestDefective \/ ResponsePredict
    \/ SentryClear \/ Tick

SpecResponse == InitSentry /\ [][NextResponse]_vars

-----------------------------------------------------------------------------
(* C35 *)

\* The predictor raises on the window: it has sequence_length points or more
\* and one of the last sequence_length lacks a metric.
C35_Raises(window) ==
    /\ Len(window) >= sequence_length
    /\ \E i \in 1..Len(window) :
           /\ i > Len(window) - sequence_length
           /\ \E f \in {"signal_strength", "latency_ms", "bandwidth_kbps",
                        "gps_velocity_kmh"} : f \notin DOMAIN window[i]

\* C35: every response of predict_signal_drop (cache hit, insufficient data,
\* prediction emitted, no prediction, internal error) has
\* should_prepare_transition true if and only if it carries a prediction;
\* when the cache misses, fewer than 5 points give COLLECT_MORE_DATA, a
\* predictor that emits nothing gives CONTINUE_MONITORING, and an exception
\* inside the call gives a response with ERROR and no prediction instead of
\* an exception for the caller.
C35_ResponseShape ==
    sentry_ret.op = "predict" =>
        LET response == sentry_ret.response
            window == sentry_ret.window
        IN  /\ response.should_prepare_transition <=> (response.prediction # None)
            /\ (~sentry_ret.cache_hit /\ Len(window) < 5)
                   => /\ response.recommended_action = "COLLECT_MORE_DATA"
                      /\ response.prediction = None
            /\ (~sentry_ret.cache_hit /\ Len(window) >= 5 /\ ~C35_Raises(window)
                  /\ response.prediction = None)
                   => response.recommended_action = "CONTINUE_MONITORING"
            /\ (~sentry_ret.cache_hit /\ Len(window) >= 5 /\ C35_Raises(window))
                   => /\ response.recommended_action = "ERROR"
                      /\ response.prediction = None
            /\ response.recommended_action \in {"COLLECT_MORE_DATA", "CONTINUE_MONITORING"}
                   => response.prediction = None

\* predict_signal_drop worked on a buffer of ten points or more with an
\* object without metrics among the last ten and answered ERROR.
C35_Witness ==
    /\ sentry_ret.op = "predict"
    /\ ~sentry_ret.cache_hit
    /\ sentry_ret.window = DictGet(telemetry_buffer, Key("d1", "s1"), <<>>)
    /\ Len(sentry_ret.window) >= sequence_length
    /\ HasNoMetricObject(sentry_ret.window)
    /\ sentry_ret.response = PredictionResponse(None, FALSE, "ERROR")

-----------------------------------------------------------------------------
(* C36 *)

\* The points of the window of pair that were ingested for pair.
C36_OwnPoints(buf, pair) ==
    SelectSeq(DictGet(buf, Key(pair[1], pair[2]), <<>>),
              LAMBDA point : point.device_id = pair[1] /\ point.session_id = pair[2])

\* The cache entry of pair when its prediction names pair, none otherwise.
C36_OwnEntry(cache, pair) ==
    LET entry == DictGet(cache, Key(pair[1], pair[2]), None)
    IN  IF /\ "device_id" \in DOMAIN entry
           /\ entry.device_id = pair[1]
           /\ entry.session_id = pair[2]
        THEN entry ELSE None

\* C36: clear_session_data for a session removes the telemetry window and
\* the cached prediction of that session and touches no other session: the
\* points ingested for any other (device_id, session_id) and the prediction
\* cached for it are after the call what they were before it.
C36_ClearIsLocal ==
    [][sentry_ret'.op = "clear" =>
          /\ Key(sentry_ret'.device_id, sentry_ret'.session_id)
                 \notin DOMAIN telemetry_buffer' \cup DOMAIN prediction_cache'
          /\ \A pair \in KeyPairs :
                 pair # <<sentry_ret'.device_id, sentry_ret'.session_id>> =>
                     /\ C36_OwnPoints(telemetry_buffer', pair)
                            = C36_OwnPoints(telemetry_buffer, pair)
                     /\ C36_OwnEntry(prediction_cache', pair)
                            = C36_OwnEntry(prediction_cache, pair)]_vars

-----------------------------------------------------------------------------
(* C37 *)

\* The modalities by bandwidth requirement: VIDEO > AUDIO > TEXT_SUMMARY.
C37_Rank(modality) ==
    CASE modality = "VIDEO" -> 3
      [] modality = "AUDIO" -> 2
      [] modality = "TEXT_SUMMARY" -> 1

\* C37: handle_panic_signal never moves a session to a modality with a higher
\* bandwidth requirement than the request's current modality: the target of
\* every panic decision is the current modality or a lower one in the order
\* VIDEO > AUDIO > TEXT_SUMMARY.
C37_PanicNeverUpgrades ==
    orch_ret.op = "panic" =>
        C37_Rank(orch_ret.response.target_modality)
            <= C37_Rank(orch_ret.request.current_modality)

-----------------------------------------------------------------------------
(* C38 *)

\* How many of the three trend indicators the window triggers: signal slope
\* below -0.05, bandwidth slope below -100 Kbps, latency slope above 50 ms
\* per sample.
C38_Indicators(window) ==
    LET n == Len(window)
        sigs == [i \in 1..n |-> window[i].signal_strength]
        bws == [i \in 1..n |-> window[i].bandwidth_kbps]
        lats == [i \in 1..n |-> window[i].latency_ms]
    IN  Cardinality({k \in 1..3 :
            \/ k = 1 /\ 6 * CenteredSum(sigs, 1) < -5 * SlopeScale(sigs)
            \/ k = 2 /\ 6 * CenteredSum(bws, 1) < -100 * SlopeScale(bws)
            \/ k = 3 /\ 6 * CenteredSum(lats, 1) > 50 * SlopeScale(lats)})

\* One of the severity conditions holds for the last point of the window.
C38_Severe(window) ==
    \/ window[Len(window)].signal_strength < 30
    \/ window[Len(window)].bandwidth_kbps < 500
    \/ window[Len(window)].latency_ms > 500

\* C38: with the threshold 0.75 the heuristic emits no prediction when fewer
\* than two of the three trend indicators are triggered, it emits one when
\* two or more are triggered and a severity condition holds, and every
\* confidence it emits is one of 0.75, 0.80, 0.90, 0.95, 1.0.
C38_HeuristicEmission ==
    (/\ sentry_ret.op = "predictor"
     /\ sentry_ret.model = "none"
     /\ Len(sentry_ret.window) = sequence_length)
        => /\ C38_Indicators(sentry_ret.window) < 2 => sentry_ret.prediction = None
           /\ (C38_Indicators(sentry_ret.window) >= 2 /\ C38_Severe(sentry_ret.window))
                  => sentry_ret.prediction # None
           /\ sentry_ret.prediction # None
                  => sentry_ret.prediction.confidence \in {75, 80, 90, 95, 100}

\* The heuristic emitted a prediction with confidence 0.80: the signal and
\* the bandwidth fall, and only the signal is low at the end.
C38_Witness ==
    /\ sentry_ret.op = "predictor"
    /\ sentry_ret.model = "none"
    /\ C38_Indicators(sentry_ret.window) = 2
    /\ sentry_ret.window[sequence_length].bandwidth_kbps >= 500
    /\ sentry_ret.window[sequence_length].latency_ms <= 500
    /\ sentry_ret.prediction # None
    /\ sentry_ret.prediction.confidence = 80

-----------------------------------------------------------------------------
(* Action runs: predictions are computed for supplied windows whose         *)
(* confidence and time to drop lie on and around the limits of the         *)
(* recommended action, with the model absent or loaded, and the session is *)
(* cleared in between so that the next call computes again.                *)

ActionWindows ==
    {Window(sigs, bws, lats) :
        sigs \in {Series(sg[1], sg[2], 0, 100) :
                     sg \in {<<90, -9>>, <<90, -6>>, <<93, -7>>, <<100, -8>>, <<90, 0>>}}
                 \cup {StepSeries(100, 55)},
        bws \in {Series(bw[1], bw[2], 0, 100000) :
                    bw \in {<<3000, -300>>, <<3000, -200>>, <<400, 0>>}},
        lats \in {Series(lt[1], lt[2], 0, 100000) : lt \in {<<50, 60>>, <<50, 0>>}}}

\* The model raises, or yields a probability on or next to a limit.
ActionOutcomes == {ModelRaises} \cup {ModelYields(p) : p \in {75, 76, 90, 91}}

ActionPredict ==
    \E window \in ActionWindows, outcome \in OutcomesOf(ActionOutcomes) :
        predict_signal_drop("d1", "s1", Given(window), outcome)

NextAction == ActionPredict \/ LoadModel \/ SentryClear

SpecAction == InitSentry /\ [][NextAction]_vars

-----------------------------------------------------------------------------
(* C39 *)

\* C39: for a freshly computed prediction the recommended action is an
\* IMMEDIATE one exactly if confidence > 0.9 and time to drop < 2.0 s,
\* otherwise a PREPARE_TEXT or PREPARE_AUDIO one exactly if confidence > 0.75
\* and time to drop < 5.0 s, otherwise PREPARE_FALLBACK; of the two actions
\* of a level the TEXT one is chosen exactly when the predicted bandwidth is
\* below 500 Kbps.  A confidence of exactly 0.75 or a time to drop of 5.0 s
\* gives PREPARE_FALLBACK.
C39_RecommendedAction ==
    (/\ sentry_ret.op = "predict"
     /\ ~sentry_ret.cache_hit
     /\ sentry_ret.response.prediction # None)
        => LET emitted == sentry_ret.response.prediction
               action == sentry_ret.response.recommended_action
               immediate == emitted.confidence > 90 /\ emitted.predicted_time_ms < 2000
               prepare == /\ ~immediate
                          /\ emitted.confidence > 75
                          /\ emitted.predicted_time_ms < 5000
           IN  /\ action \in {"IMMEDIATE_TEXT_FALLBACK", "IMMEDIATE_AUDIO_FALLBACK"}
                      <=> immediate
               /\ action \in {"PREPARE_TEXT_FALLBACK", "PREPARE_AUDIO_FALLBACK"}
                      <=> prepare
               /\ action = "PREPARE_FALLBACK" <=> (~immediate /\ ~prepare)
               /\ action \in {"IMMEDIATE_TEXT_FALLBACK", "PREPARE_TEXT_FALLBACK"}
                      => emitted.predicted_bandwidth_kbps < 500
               /\ action \in {"IMMEDIATE_AUDIO_FALLBACK", "PREPARE_AUDIO_FALLBACK"}
                      => emitted.predicted_bandwidth_kbps >= 500
               /\ (emitted.confidence = 75 \/ emitted.predicted_time_ms = 5000)
                      => action = "PREPARE_FALLBACK"

\* A prediction with confidence exactly 0.75 and a time to drop below 5 s
\* was computed and answered with PREPARE_FALLBACK.
C39_Witness ==
    /\ sentry_ret.op = "predict"
    /\ ~sentry_ret.cache_hit
    /\ sentry_ret.response.prediction # None
    /\ sentry_ret.response.prediction.confidence = 75
    /\ sentry_ret.response.prediction.predicted_time_ms < 5000
    /\ sentry_ret.response.prediction.predicted_bandwidth_kbps < 500
    /\ sentry_ret.response.recommended_action = "PREPARE_FALLBACK"

=============================================================================
